---------------------------- MODULE Spec2Model ----------------------------
(***************************************************************************)
(* Ephemeral Audio Decay System (src/ephemeral-audio).                     *)
(*                                                                         *)
(* One track: a WAV container (a header followed by NumFrames sample       *)
(* frames), its counters record (the metadata JSON file), the registry of  *)
(* segment locks and the per-track counter lock.  Procs are the request    *)
(* threads of the server; each runs one request at a time:                 *)
(*   kind "stream"  - AudioStreamingService.stream_audio   (streaming.py)  *)
(*   kind "degrade" - POST /degrade/<filename>             (app.py)        *)
(*   kind "route"   - GET  /stream/<filename>              (app.py)        *)
(* A generator suspended at a yield waits for its consumer, who pulls the  *)
(* next chunk or closes the stream.                                        *)
(*                                                                         *)
(* Units: offsets and durations are counted in sample frames, so that      *)
(* segment_duration is SamplesPerSegment frames; a dropout rate is kept    *)
(* in percent (0..100) instead of 0.0..1.0.  A sample frame is a natural   *)
(* number, 0 being the zeroed sample.                                      *)
(***************************************************************************)
EXTENDS Integers, Sequences, FiniteSets, TLC

\* ------------------------------------------------------------- bounds
NumFrames == 3
SamplesPerSegment == 2
DegradationRate == 50
MaxRequests == 2
MaxFaults == 1
\* the longest buffer handed to apply_dropout on its own, in frames
MaxBuffer == 2
\* the largest small play count of the functions called on their own
MaxPlayCount == 3

\* ---------------------------------------------------------- constants
HeaderSize == 44

Procs == {1, 2}
\* a threading.Lock that no thread holds
NoProc == 0
\* a key that is not in SegmentLockManager._locks
NoLock == -2
\* values np.random.random can return, in percent of its range [0, 1)
RandomValues == {0, 50, 99}
\* chunk tag of the container header in a stream's output
HeaderChunk == -1

Min(a, b) == IF a < b THEN a ELSE b
Max(a, b) == IF a > b THEN a ELSE b

\* int(x / y) of Python for y > 0: truncation toward zero
IntDiv(x, y) == IF x >= 0 THEN x \div y ELSE -((-x) \div y)

\* np.ceil(duration / segment_duration), durations in frames
calculate_total_segments == (NumFrames + SamplesPerSegment - 1) \div SamplesPerSegment

TotalSegments == calculate_total_segments
Segments == 0 .. (TotalSegments - 1)

\* start offsets a client may ask for, in frames
StartOffsets == (-1) .. (NumFrames + 1)
\* segment_index values a force-degrade request may carry
RequestedIndices == (-1) .. TotalSegments

\* ------------------------------------------------ degradation.py
\* seeded fault:the quotient is returned without min(..., 1.0)
calculate_dropout_rate_uncapped(play_count, degradation_rate) ==
    play_count * degradation_rate

\* seeded fault:the product is divided by 1000.0, a rate per mille
calculate_dropout_rate_per_mille(play_count, degradation_rate) ==
    Min((play_count * degradation_rate) \div 10, 100)

\* min((play_count * degradation_rate) / 100.0, 1.0), in percent
calculate_dropout_rate(play_count, degradation_rate) ==
    Min(play_count * degradation_rate, 100)

\* seeded fault:the play being served is counted in: there is no return of
\* the input at play_count 0 and the rate is that of play_count + 1
apply_dropout_counts_this_play(audio_samples, play_count, degradation_rate, rnd) ==
    IF calculate_dropout_rate(play_count + 1, degradation_rate) >= 100
    THEN [k \in 1 .. Len(audio_samples) |-> 0]
    ELSE [k \in 1 .. Len(audio_samples) |->
            IF rnd[k] < calculate_dropout_rate(play_count + 1, degradation_rate)
            THEN 0 ELSE audio_samples[k]]

\* rnd[k] is the value np.random.random drew for frame k
apply_dropout(audio_samples, play_count, degradation_rate, rnd) ==
    IF play_count = 0 THEN audio_samples
    ELSE IF calculate_dropout_rate(play_count, degradation_rate) >= 100
         THEN [k \in 1 .. Len(audio_samples) |-> 0]
         ELSE [k \in 1 .. Len(audio_samples) |->
                 IF rnd[k] < calculate_dropout_rate(play_count, degradation_rate)
                 THEN 0 ELSE audio_samples[k]]

\* seeded fault:the loop over the channels is left out, the mask is
\* applied to channel 0 only
apply_dropout_first_channel_only(audio_frames, play_count, degradation_rate, rnd) ==
    IF play_count = 0 THEN audio_frames
    ELSE IF calculate_dropout_rate(play_count, degradation_rate) >= 100
         THEN [k \in 1 .. Len(audio_frames) |->
                 [c \in DOMAIN audio_frames[k] |-> 0]]
         ELSE [k \in 1 .. Len(audio_frames) |->
                 [c \in DOMAIN audio_frames[k] |->
                    IF c = 1 /\ rnd[k] < calculate_dropout_rate(play_count,
                                                                degradation_rate)
                    THEN 0 ELSE audio_frames[k][c]]]

\* apply_dropout on an array of shape (samples, channels), lines 54-62:
\* audio_frames[k][c] is the sample of channel c in frame k, rnd[k] the
\* value drawn for frame k; the mask is applied to every channel
apply_dropout_multichannel(audio_frames, play_count, degradation_rate, rnd) ==
    IF play_count = 0 THEN audio_frames
    ELSE IF calculate_dropout_rate(play_count, degradation_rate) >= 100
         THEN [k \in 1 .. Len(audio_frames) |->
                 [c \in DOMAIN audio_frames[k] |-> 0]]
         ELSE [k \in 1 .. Len(audio_frames) |->
                 [c \in DOMAIN audio_frames[k] |->
                    IF rnd[k] < calculate_dropout_rate(play_count, degradation_rate)
                    THEN 0 ELSE audio_frames[k][c]]]

\* every buffer apply_dropout can return for some random draw
DropoutOutcomes(audio_samples, play_count, degradation_rate) ==
    { apply_dropout(audio_samples, play_count, degradation_rate, rnd) :
        rnd \in [1 .. Len(audio_samples) -> RandomValues] }

\* ------------------------------------------------ wav_handler.py
\* wav_file.setpos(start_frame); wav_file.readframes(samples_per_segment):
\* a short read at the end of the container
read_segment(frames, segment_index) ==
    LET start_frame == segment_index * SamplesPerSegment
        last == Min(start_frame + SamplesPerSegment, Len(frames))
    IN  [k \in 1 .. Max(last - start_frame, 0) |-> frames[start_frame + k]]

\* f.seek(byte_offset); f.write(audio_bytes), on the frames after the header
write_segment(frames, segment_index, audio_data) ==
    LET start_frame == segment_index * SamplesPerSegment
    IN  [k \in 1 .. Max(Len(frames), start_frame + Len(audio_data)) |->
            IF k > start_frame /\ k <= start_frame + Len(audio_data)
            THEN audio_data[k - start_frame]
            ELSE IF k <= Len(frames) THEN frames[k] ELSE 0]

\* ------------------------------------------------ lock_manager.py
\* seeded fault:without the test "key not in self._locks" every lookup puts
\* a new lock under the key
_get_lock_always_new(locks, segment_index) ==
    [locks EXCEPT ![segment_index] = NoProc]

\* _get_lock: the registry after the lookup, the key's lock created if it
\* was not there
_get_lock(locks, segment_index) ==
    IF locks[segment_index] = NoLock
    THEN [locks EXCEPT ![segment_index] = NoProc]
    ELSE locks

\* acquire_lock: lock.acquire(timeout) returns True
lock_is_free(locks, segment_index) ==
    _get_lock(locks, segment_index)[segment_index] = NoProc

\* the registry after acquire_lock by thread p: the lock is taken if it is
\* free, and after the timeout it is left as it was
acquire_lock(locks, segment_index, p) ==
    IF lock_is_free(locks, segment_index)
    THEN [locks EXCEPT ![segment_index] = p]
    ELSE locks

\* the registry after release_lock by thread p: lock.release() unlocks a
\* locked threading.Lock whichever thread calls it, and raises RuntimeError
\* (caught, ignored) on an unlocked one
release_lock(locks, segment_index, p) ==
    [locks EXCEPT ![segment_index] = NoProc]

\* ------------------------------------------------ metadata.py
ZeroCounts == [i \in Segments |-> 0]

\* the value None of get_track_metadata
None == [ok |-> FALSE, counts |-> ZeroCounts, total_streams |-> 0]

\* seeded fault:the table of counts is made one entry short
InitialRecordShortTable ==
    [exists |-> TRUE, partial |-> FALSE,
     counts |-> [i \in 0 .. (TotalSegments - 2) |-> 0], total_streams |-> 0,
     created_at |-> 0]

\* initialize_track_metadata: the record written for a new track
\* created_at: 0 for a record made at startup, 1 for one made by a later scan
InitialRecord ==
    [exists |-> TRUE, partial |-> FALSE, counts |-> ZeroCounts, total_streams |-> 0,
     created_at |-> 0]

NoRecord ==
    [exists |-> FALSE, partial |-> FALSE, counts |-> ZeroCounts, total_streams |-> 0,
     created_at |-> 0]

\* json.load of the counters file; a file that is missing, or that a writer
\* has opened with 'w' (truncated) and not yet closed, gives None
get_track_metadata(file) ==
    IF file.exists /\ ~file.partial
    THEN [ok |-> TRUE, counts |-> file.counts, total_streams |-> file.total_streams]
    ELSE None

\* seeded fault:every count of the table is incremented
IncrementedCountsAll(counts, segment_index) ==
    [i \in DOMAIN counts |-> counts[i] + 1]

\* metadata['segment_play_counts'][segment_index] += 1, inside the bounds check
IncrementedCounts(counts, segment_index) ==
    IF segment_index \in DOMAIN counts
    THEN [counts EXCEPT ![segment_index] = @ + 1]
    ELSE counts

\* ------------------------------------------------ streaming.py
\* get_segment_range: the first index of list(range(start_segment, end_segment))
get_segment_range(start_seconds) ==
    Max(0, Min(IntDiv(start_seconds, SamplesPerSegment), TotalSegments - 1))


\* seeded fault:the start index is clamped from above only
get_segment_range_not_clamped_below(start_seconds, total_segments) ==
    LET start_segment == Min(IntDiv(start_seconds, SamplesPerSegment),
                             total_segments - 1)
    IN  [k \in 1 .. Max(total_segments - start_segment, 0) |->
            start_segment + k - 1]

\* get_segment_range: list(range(start_segment, end_segment)) with
\* start_segment = max(0, min(int(start_seconds / segment_duration),
\* total_segments - 1)) and end_segment = total_segments; times in frames
get_segment_range_indices(start_seconds, total_segments) ==
    LET start_segment == Max(0, Min(IntDiv(start_seconds, SamplesPerSegment),
                                    total_segments - 1))
    IN  [k \in 1 .. Max(total_segments - start_segment, 0) |->
            start_segment + k - 1]

\* ------------------------------------------------------------- state
VARIABLES
    fileExists,   \* os.path.exists(file_path) of the container
    headerOk,     \* wave.open can parse the container's header
    wav,          \* the sample frames of the container, after the header
    metaFile,     \* the counters record (metadata JSON file) of the track
    segLock,      \* SegmentLockManager._locks: holder of each segment lock
    trackLock,    \* MetadataManager._locks[filename]: holder of the track lock
    th,           \* per request thread: position, locals, response
    started,      \* requests started so far
    faults,       \* I/O failures injected so far
    applied,      \* per segment, the play counts that the degrade passes
                  \* completed without a failure passed to apply_dropout
    issued,       \* the counter increments that have returned after
                  \* persisting: per segment, and of total_streams
    store,        \* wav_handler.py taken alone: a container file, byte by byte
    calc          \* the pure functions taken alone: the last call and its result

vars == <<fileExists, headerOk, wav, metaFile, segLock, trackLock, th,
          started, faults, applied, issued, store, calc>>

Terminal == {"idle", "done", "failed", "closed"}

\* the locals of a thread that runs no request
Fresh ==
    [pc |-> "idle", kind |-> "none", seg |-> 0, md |-> None, play_count |-> 0,
     audio |-> <<>>, degraded |-> <<>>, out |-> <<>>, lastChunk |-> <<>>,
     result |-> "", reply |-> 0, startIdx |-> 0, range |-> FALSE,
     alone |-> FALSE, base |-> None, failed |-> {}, cntAtLock |-> 0,
     cancelled |-> FALSE, totals |-> 0]

NoneIssued == [counts |-> ZeroCounts, total |-> 0]

\* no container is under test, no function has been called
NoStore == [bytes |-> <<>>, original |-> <<>>, data_offset |-> 0, frame_bytes |-> 0]
NoCall == [fn |-> "none", args |-> <<>>, result |-> <<>>]

Init ==
    /\ fileExists \in BOOLEAN
    /\ headerOk \in BOOLEAN
    /\ (~fileExists => ~headerOk)
    /\ wav = [k \in 1 .. NumFrames |-> k]
    /\ metaFile \in {InitialRecord, NoRecord}
    /\ segLock = [i \in Segments |-> NoLock]
    /\ trackLock = NoProc
    /\ th = [p \in Procs |-> Fresh]
    /\ started = 0
    /\ faults = 0
    /\ applied = [i \in Segments |-> <<>>]
    /\ issued = NoneIssued
    /\ store = NoStore
    /\ calc = NoCall

\* a request begins with locals rec on thread p, the first thread of the
\* pool that runs no request; every other thread learns that it no longer
\* runs alone, and a thread that has answered its request is idle again
Begin(p, rec) ==
    /\ th[p].pc \in Terminal
    /\ \A q \in Procs : q < p => th[q].pc \notin Terminal
    /\ started < MaxRequests
    /\ started' = started + 1
    /\ th' = [q \in Procs |->
                IF q = p
                THEN [rec EXCEPT
                        !.alone = \A r \in Procs \ {p} : th[r].pc \in Terminal,
                        !.base = [ok |-> metaFile.exists,
                                  counts |-> metaFile.counts,
                                  total_streams |-> metaFile.total_streams]]
                ELSE IF th[q].pc \in Terminal THEN Fresh
                ELSE [th[q] EXCEPT !.alone = FALSE, !.base = None]]
    /\ UNCHANGED <<store, calc, issued>>

\* the locals of a request die when it returns: what is left is its
\* response, the chunks it put out and the record of how it ran
Leave(rec, pc, result) ==
    [Fresh EXCEPT !.pc = pc, !.result = result, !.kind = rec.kind,
                  !.out = rec.out, !.reply = rec.reply,
                  !.startIdx = rec.startIdx, !.range = rec.range,
                  !.alone = rec.alone, !.base = rec.base,
                  !.failed = rec.failed, !.cancelled = rec.cancelled,
                  !.totals = rec.totals]

\* the loop "for segment_index in segment_indices" goes on to the next
\* index, or the generator returns; the locals of the finished iteration
\* are dead
Iterate(rec) ==
    IF rec.seg + 1 < TotalSegments
    THEN [rec EXCEPT !.seg = @ + 1, !.pc = "s_iter", !.play_count = 0,
                     !.audio = <<>>, !.degraded = <<>>, !.lastChunk = <<>>,
                     !.cntAtLock = 0]
    ELSE Leave(rec, "done", rec.result)

\* ------------------------------------- metadata.py: counter increments
\* where a request goes on after increment_total_streams returned
AfterTotal(p) == IF th[p].kind = "stream" THEN "s_hdr" ELSE "r_send"
\* where a request goes on after increment_segment_play_count returned
AfterSegment(p) == IF th[p].kind = "stream" THEN "s_write" ELSE "d_ret"

\* seeded fault:one is added to the total_streams of the metadata that the
\* caller loaded earlier, not to the record loaded under the track lock
IncrementTotalStreamsStale(p) ==
    /\ th[p].pc = "inc_total"
    /\ trackLock = NoProc
    /\ IF get_track_metadata(metaFile).ok
       THEN /\ metaFile' = [metaFile EXCEPT !.partial = TRUE,
                                            !.total_streams = th[p].md.total_streams + 1]
            /\ trackLock' = p
            /\ th' = [th EXCEPT ![p].pc = "inc_total_w"]
       ELSE /\ th' = [th EXCEPT ![p].pc = AfterTotal(p)]
            /\ UNCHANGED <<metaFile, trackLock>>
    /\ UNCHANGED <<store, calc, issued, fileExists, headerOk, wav, segLock, started, faults,
                   applied>>

\* increment_total_streams: with lock: load, (None: return), add one, open 'w'
IncrementTotalStreamsBegin(p) ==
    /\ th[p].pc = "inc_total"
    /\ trackLock = NoProc
    /\ IF get_track_metadata(metaFile).ok
       THEN /\ metaFile' = [metaFile EXCEPT !.partial = TRUE,
                                            !.total_streams = @ + 1]
            /\ trackLock' = p
            /\ th' = [th EXCEPT ![p].pc = "inc_total_w"]
       ELSE /\ th' = [th EXCEPT ![p].pc = AfterTotal(p)]
            /\ UNCHANGED <<store, calc, issued, metaFile, trackLock>>
    /\ UNCHANGED <<store, calc, issued, fileExists, headerOk, wav, segLock, started, faults,
                   applied>>

\* increment_total_streams: json.dump done, file closed, lock released
IncrementTotalStreamsEnd(p) ==
    /\ th[p].pc = "inc_total_w"
    /\ metaFile' = [metaFile EXCEPT !.partial = FALSE]
    /\ trackLock' = NoProc
    /\ th' = [th EXCEPT ![p].pc = AfterTotal(p), ![p].totals = @ + 1]
    /\ issued' = [issued EXCEPT !.total = @ + 1]
    /\ UNCHANGED <<store, calc, fileExists, headerOk, wav, segLock, started, faults,
                   applied>>

\* increment_total_streams raises before it changed the file: stream_audio
\* prints a warning and goes on, the GET /stream route answers 500
IncrementTotalStreamsFail(p) ==
    /\ th[p].pc = "inc_total"
    /\ faults < MaxFaults
    /\ faults' = faults + 1
    /\ LET rec == [th[p] EXCEPT !.failed = @ \cup {<<"total", 0>>}]
       IN  th' = [th EXCEPT ![p] = IF rec.kind = "stream"
                                   THEN [rec EXCEPT !.pc = "s_hdr"]
                                   ELSE Leave(rec, "failed", "500")]
    /\ UNCHANGED <<store, calc, issued, fileExists, headerOk, wav, metaFile, segLock, trackLock,
                   started, applied>>

\* seeded fault:the record is written with the caller's play_count plus one
\* instead of the count loaded under the track lock
IncrementSegmentStale(p) ==
    /\ th[p].pc = "inc_seg"
    /\ trackLock = NoProc
    /\ metaFile' = [metaFile EXCEPT
                      !.partial = TRUE,
                      !.counts = [@ EXCEPT ![th[p].seg] = th[p].play_count + 1]]
    /\ trackLock' = p
    /\ th' = [th EXCEPT ![p].pc = "inc_seg_w"]
    /\ UNCHANGED <<store, calc, issued, fileExists, headerOk, wav, segLock, started, faults,
                   applied>>

\* increment_segment_play_count: with lock: load, (None: return), add one
\* to the segment's count, open 'w'
IncrementSegmentBegin(p) ==
    /\ th[p].pc = "inc_seg"
    /\ trackLock = NoProc
    /\ IF get_track_metadata(metaFile).ok
       THEN /\ metaFile' = [metaFile EXCEPT
                              !.partial = TRUE,
                              !.counts = IncrementedCounts(@, th[p].seg)]
            /\ trackLock' = p
            /\ th' = [th EXCEPT ![p].pc = "inc_seg_w"]
       ELSE /\ th' = [th EXCEPT ![p].pc = AfterSegment(p)]
            /\ UNCHANGED <<store, calc, issued, metaFile, trackLock>>
    /\ UNCHANGED <<store, calc, issued, fileExists, headerOk, wav, segLock, started, faults,
                   applied>>

\* seeded fault:the track lock is taken with acquire() and never released
IncrementSegmentEndKeepsLock(p) ==
    /\ th[p].pc = "inc_seg_w"
    /\ metaFile' = [metaFile EXCEPT !.partial = FALSE]
    /\ th' = [th EXCEPT ![p].pc = AfterSegment(p)]
    /\ issued' = [issued EXCEPT !.counts = IncrementedCounts(@, th[p].seg)]
    /\ UNCHANGED <<store, calc, fileExists, headerOk, wav, segLock, trackLock, started,
                   faults, applied>>

\* increment_segment_play_count: json.dump done, file closed, lock released
IncrementSegmentEnd(p) ==
    /\ th[p].pc = "inc_seg_w"
    /\ metaFile' = [metaFile EXCEPT !.partial = FALSE]
    /\ trackLock' = NoProc
    /\ th' = [th EXCEPT ![p].pc = AfterSegment(p)]
    /\ issued' = [issued EXCEPT !.counts = IncrementedCounts(@, th[p].seg)]
    /\ UNCHANGED <<store, calc, fileExists, headerOk, wav, segLock, started, faults,
                   applied>>

\* increment_segment_play_count raises before it changed the file:
\* stream_audio prints a warning and goes on to the write; degrade_segment
\* leaves the with block (the segment lock is released) and answers 500
IncrementSegmentFail(p) ==
    /\ th[p].pc = "inc_seg"
    /\ faults < MaxFaults
    /\ faults' = faults + 1
    /\ LET rec == [th[p] EXCEPT !.failed = @ \cup {<<"inc", th[p].seg>>}]
       IN  th' = [th EXCEPT ![p] = IF rec.kind = "stream"
                                   THEN [rec EXCEPT !.pc = "s_write"]
                                   ELSE Leave(rec, "failed", "500")]
    /\ segLock' = IF th[p].kind = "stream" THEN segLock
                  ELSE release_lock(segLock, th[p].seg, p)
    /\ UNCHANGED <<store, calc, issued, fileExists, headerOk, wav, metaFile, trackLock,
                   started, applied>>
\* wave.open of the container works: get_wav_info, read_segment, write_segment
Readable == fileExists /\ headerOk

\* ------------------------------------ streaming.py: stream_audio
\* seeded fault:total_streams is incremented before the checks are made
StreamStartCountsFirst(p, start_seconds) ==
    /\ Begin(p, [Fresh EXCEPT
                   !.kind = "stream",
                   !.pc = "inc_total",
                   !.md = get_track_metadata(metaFile),
                   !.startIdx = get_segment_range(start_seconds)])
    /\ UNCHANGED <<store, calc, issued, fileExists, headerOk, wav, metaFile, segLock, trackLock,
                   faults, applied>>

\* lines 75-97: the three checks, each raising before anything is changed;
\* then the request goes on to increment_total_streams
StreamStart(p, start_seconds) ==
    LET metadata == get_track_metadata(metaFile)
        error == IF ~fileExists THEN "FileNotFoundError"
                 ELSE IF ~headerOk \/ ~metadata.ok THEN "ValueError"
                 ELSE ""
    IN  /\ Begin(p, [Fresh EXCEPT
                       !.kind = "stream",
                       !.pc = IF error = "" THEN "inc_total" ELSE "failed",
                       !.result = error,
                       !.md = IF error = "" THEN metadata ELSE None,
                       !.startIdx = IF error = "" THEN get_segment_range(start_seconds)
                                    ELSE 0])
        /\ UNCHANGED <<store, calc, issued, fileExists, headerOk, wav, metaFile, segLock, trackLock,
                       faults, applied>>

\* lines 100-102: yield wav_header; the generator is suspended at the yield
StreamEmitHeader(p) ==
    /\ th[p].pc = "s_hdr"
    /\ th' = [th EXCEPT ![p].out = Append(@, HeaderChunk),
                        ![p].pc = "y_hdr"]
    /\ UNCHANGED <<store, calc, issued, fileExists, headerOk, wav, metaFile, segLock, trackLock,
                   started, faults, applied>>

\* seeded fault:the loop starts at index 0 whatever the start offset
StreamPullHeaderFromZero(p) ==
    /\ th[p].pc = "y_hdr"
    /\ th' = [th EXCEPT ![p].seg = 0, ![p].pc = "s_iter"]
    /\ UNCHANGED <<store, calc, issued, fileExists, headerOk, wav, metaFile, segLock, trackLock,
                   started, faults, applied>>

\* the consumer pulls after the header: lines 105-112, the loop starts at
\* the first index of get_segment_range
StreamPullHeader(p) ==
    /\ th[p].pc = "y_hdr"
    /\ th' = [th EXCEPT ![p].seg = th[p].startIdx, ![p].pc = "s_iter"]
    /\ UNCHANGED <<store, calc, issued, fileExists, headerOk, wav, metaFile, segLock, trackLock,
                   started, faults, applied>>

\* line 115 with metadata None (the last reload returned None): TypeError,
\* caught at line 181, "continue" to the next index without reloading
StreamSkipNoMetadata(p) ==
    /\ th[p].pc = "s_iter"
    /\ ~th[p].md.ok
    /\ th' = [th EXCEPT ![p] = Iterate(th[p])]
    /\ UNCHANGED <<store, calc, issued, fileExists, headerOk, wav, metaFile, segLock, trackLock,
                   started, faults, applied>>

\* seeded fault:the result of lock.acquire is not looked at: the locked branch
\* is taken whether or not the lock was free
StreamLockAcquireUnchecked(p) ==
    /\ th[p].pc = "s_iter"
    /\ th[p].md.ok
    /\ segLock' = [segLock EXCEPT ![th[p].seg] = p]
    /\ th' = [th EXCEPT ![p].play_count = th[p].md.counts[th[p].seg],
                        ![p].cntAtLock = metaFile.counts[th[p].seg],
                        ![p].pc = "s_locked"]
    /\ UNCHANGED <<store, calc, issued, fileExists, headerOk, wav, metaFile, trackLock,
                   started, faults, applied>>

\* lines 115-119: play_count from the metadata loaded earlier, then the
\* segment lock is acquired within the timeout
StreamLockAcquire(p) ==
    /\ th[p].pc = "s_iter"
    /\ th[p].md.ok
    /\ lock_is_free(segLock, th[p].seg)
    /\ segLock' = acquire_lock(segLock, th[p].seg, p)
    /\ th' = [th EXCEPT ![p].play_count = th[p].md.counts[th[p].seg],
                        ![p].cntAtLock = metaFile.counts[th[p].seg],
                        ![p].pc = "s_locked"]
    /\ UNCHANGED <<store, calc, issued, fileExists, headerOk, wav, metaFile, trackLock,
                   started, faults, applied>>

\* seeded fault:lock.acquire() is called without a timeout and blocks for as
\* long as the lock is held
StreamLockNoTimeout(p) ==
    /\ th[p].pc = "s_iter"
    /\ FALSE
    /\ UNCHANGED vars

\* lines 115-119, 156: lock.acquire(timeout) returns False, the lock being
\* held by another thread
StreamLockTimeout(p) ==
    /\ th[p].pc = "s_iter"
    /\ th[p].md.ok
    /\ ~lock_is_free(segLock, th[p].seg)
    /\ segLock' = acquire_lock(segLock, th[p].seg, p)
    /\ th' = [th EXCEPT ![p].play_count = th[p].md.counts[th[p].seg],
                        ![p].pc = "s_ro"]
    /\ UNCHANGED <<store, calc, issued, fileExists, headerOk, wav, metaFile, trackLock,
                   started, faults, applied>>

\* lines 122-132: read_segment, then apply_dropout with play_count
StreamReadDegrade(p) ==
    /\ th[p].pc = "s_locked"
    /\ Readable
    /\ \E degraded_audio \in DropoutOutcomes(read_segment(wav, th[p].seg),
                                             th[p].play_count, DegradationRate) :
          th' = [th EXCEPT ![p].audio = read_segment(wav, th[p].seg),
                           ![p].degraded = degraded_audio,
                           ![p].pc = "inc_seg"]
    /\ UNCHANGED <<store, calc, issued, fileExists, headerOk, wav, metaFile, segLock, trackLock,
                   started, faults, applied>>

\* seeded fault:the exception of read_segment is not caught in the loop; it
\* leaves the with block (the lock is released) and ends the generator
StreamReadFailAbortsStream(p) ==
    /\ th[p].pc = "s_locked"
    /\ faults < MaxFaults
    /\ faults' = faults + 1
    /\ segLock' = release_lock(segLock, th[p].seg, p)
    /\ th' = [th EXCEPT ![p] =
                Leave([th[p] EXCEPT !.failed = @ \cup {<<"read", th[p].seg>>}],
                      "failed", "error")]
    /\ UNCHANGED <<store, calc, issued, fileExists, headerOk, wav, metaFile, trackLock,
                   started, applied>>

\* lines 127-129: read_segment raises; "continue" leaves the with block (the
\* lock is released) and skips the reload of the metadata
StreamReadFail(p) ==
    /\ th[p].pc = "s_locked"
    /\ faults < MaxFaults
    /\ faults' = faults + 1
    /\ segLock' = release_lock(segLock, th[p].seg, p)
    /\ th' = [th EXCEPT ![p] =
                Iterate([th[p] EXCEPT !.failed = @ \cup {<<"read", th[p].seg>>}])]
    /\ UNCHANGED <<store, calc, issued, fileExists, headerOk, wav, metaFile, trackLock,
                   started, applied>>

\* seeded fault:the chunk of a locked step is yielded twice
EmittedTwice(p, chunk) ==
    [th EXCEPT ![p].out = Append(Append(@, th[p].seg), th[p].seg),
               ![p].lastChunk = chunk,
               ![p].pc = "y_locked"]

\* what a locked step leaves behind when it yields its chunk
Emitted(p, chunk) ==
    [th EXCEPT ![p].out = Append(@, th[p].seg),
               ![p].lastChunk = chunk,
               ![p].pc = "y_locked"]

\* lines 141-155: write_segment, then yield degraded_audio.tobytes(); the
\* generator is suspended inside the with block, holding the segment lock
StreamWrite(p) ==
    /\ th[p].pc = "s_write"
    /\ Readable
    /\ wav' = write_segment(wav, th[p].seg, th[p].degraded)
    /\ th' = Emitted(p, th[p].degraded)
    /\ applied' = IF \A f \in th[p].failed : f[2] # th[p].seg \/ f[1] = "total"
                  THEN [applied EXCEPT ![th[p].seg] = Append(@, th[p].play_count)]
                  ELSE applied
    /\ UNCHANGED <<store, calc, issued, fileExists, headerOk, metaFile, segLock, trackLock,
                   started, faults>>

\* seeded fault:after a failed write the samples as read are yielded
StreamWriteFailEmitsOriginal(p) ==
    /\ th[p].pc = "s_write"
    /\ faults < MaxFaults
    /\ faults' = faults + 1
    /\ th' = [Emitted(p, th[p].audio) EXCEPT
                ![p].failed = @ \cup {<<"write", th[p].seg>>}]
    /\ UNCHANGED <<store, calc, issued, fileExists, headerOk, wav, metaFile, segLock, trackLock,
                   started, applied>>

\* lines 148-155: write_segment raises, the error is printed, and the
\* degraded chunk is yielded all the same
StreamWriteFail(p) ==
    /\ th[p].pc = "s_write"
    /\ faults < MaxFaults
    /\ faults' = faults + 1
    /\ th' = [Emitted(p, th[p].degraded) EXCEPT
                ![p].failed = @ \cup {<<"write", th[p].seg>>}]
    /\ UNCHANGED <<store, calc, issued, fileExists, headerOk, wav, metaFile, segLock, trackLock,
                   started, applied>>
\* the consumer pulls after a locked step's chunk: the with block is left,
\* SegmentLock.__exit__ releases the lock
StreamPullLocked(p) ==
    /\ th[p].pc = "y_locked"
    /\ segLock' = release_lock(segLock, th[p].seg, p)
    /\ th' = [th EXCEPT ![p].pc = "s_reload"]
    /\ UNCHANGED <<store, calc, issued, fileExists, headerOk, wav, metaFile, trackLock,
                   started, faults, applied>>

\* seeded fault:the read-only branch degrades and writes the segment as the
\* locked branch does
StreamReadOnlyDegrading(p) ==
    /\ th[p].pc = "s_ro"
    /\ Readable
    /\ \E degraded_audio \in DropoutOutcomes(read_segment(wav, th[p].seg),
                                             th[p].play_count, DegradationRate) :
          /\ wav' = write_segment(wav, th[p].seg, degraded_audio)
          /\ th' = [th EXCEPT ![p].audio = read_segment(wav, th[p].seg),
                              ![p].out = Append(@, th[p].seg),
                              ![p].lastChunk = degraded_audio,
                              ![p].pc = "y_ro"]
    /\ UNCHANGED <<store, calc, issued, fileExists, headerOk, metaFile, segLock, trackLock,
                   started, faults, applied>>

\* lines 159-165: the lock timed out; read_segment, then yield the samples
\* as they are
StreamReadOnly(p) ==
    /\ th[p].pc = "s_ro"
    /\ Readable
    /\ th' = [th EXCEPT ![p].audio = read_segment(wav, th[p].seg),
                        ![p].out = Append(@, th[p].seg),
                        ![p].lastChunk = read_segment(wav, th[p].seg),
                        ![p].pc = "y_ro"]
    /\ UNCHANGED <<store, calc, issued, fileExists, headerOk, wav, metaFile, segLock, trackLock,
                   started, faults, applied>>

\* lines 166-168: read_segment raises in read-only mode; "continue"
StreamReadOnlyFail(p) ==
    /\ th[p].pc = "s_ro"
    /\ faults < MaxFaults
    /\ faults' = faults + 1
    /\ th' = [th EXCEPT ![p] =
                Iterate([th[p] EXCEPT !.failed = @ \cup {<<"read", th[p].seg>>}])]
    /\ UNCHANGED <<store, calc, issued, fileExists, headerOk, wav, metaFile, segLock, trackLock,
                   started, applied>>

\* the consumer pulls after a read-only chunk: the with block is left, no
\* lock to release (acquired is False)
StreamPullReadOnly(p) ==
    /\ th[p].pc = "y_ro"
    /\ th' = [th EXCEPT ![p].pc = "s_reload"]
    /\ UNCHANGED <<store, calc, issued, fileExists, headerOk, wav, metaFile, segLock, trackLock,
                   started, faults, applied>>

\* lines 170-175: metadata = get_track_metadata(filename), which reads the
\* file without the track lock and returns None instead of raising
StreamReload(p) ==
    /\ th[p].pc = "s_reload"
    /\ th' = [th EXCEPT ![p] =
                Iterate([th[p] EXCEPT !.md = get_track_metadata(metaFile)])]
    /\ UNCHANGED <<store, calc, issued, fileExists, headerOk, wav, metaFile, segLock, trackLock,
                   started, faults, applied>>

\* seeded fault:GeneratorExit is swallowed like any other exception: the held
\* lock is released and the loop goes on with the next segment
StreamCloseSwallowed(p) ==
    /\ th[p].pc \in {"y_hdr", "y_locked", "y_ro"}
    /\ segLock' = IF th[p].pc = "y_locked"
                  THEN release_lock(segLock, th[p].seg, p)
                  ELSE segLock
    /\ th' = [th EXCEPT ![p] =
                IF th[p].pc = "y_hdr"
                THEN [th[p] EXCEPT !.cancelled = TRUE, !.seg = th[p].startIdx,
                                   !.pc = "s_iter"]
                ELSE Iterate([th[p] EXCEPT !.cancelled = TRUE])]
    /\ UNCHANGED <<store, calc, issued, fileExists, headerOk, wav, metaFile, trackLock,
                   started, faults, applied>>

\* the consumer closes the generator: GeneratorExit is raised at the yield.
\* At the header it leaves the generator; at a segment's chunk it leaves the
\* with block (a held lock is released) and line 177-180 breaks the loop
StreamClose(p) ==
    /\ th[p].pc \in {"y_hdr", "y_locked", "y_ro"}
    /\ segLock' = IF th[p].pc = "y_locked"
                  THEN release_lock(segLock, th[p].seg, p)
                  ELSE segLock
    /\ th' = [th EXCEPT ![p] =
                Leave([th[p] EXCEPT !.cancelled = TRUE], "closed", th[p].result)]
    /\ UNCHANGED <<store, calc, issued, fileExists, headerOk, wav, metaFile, trackLock,
                   started, faults, applied>>

\* ------------------------------------ app.py: degrade_segment
\* lines 243-256: the metadata is loaded and the index validated, before
\* the lock is asked for
DegradeStart(p, segment_index) ==
    LET metadata == get_track_metadata(metaFile)
        error == IF ~metadata.ok THEN "404"
                 ELSE IF segment_index < 0 \/ segment_index >= TotalSegments
                      THEN "400" ELSE ""
    IN  /\ Begin(p, [Fresh EXCEPT
                       !.kind = "degrade",
                       !.pc = IF error = "" THEN "d_lock" ELSE "failed",
                       !.result = error,
                       !.md = IF error = "" THEN metadata ELSE None,
                       !.seg = IF error = "" THEN segment_index ELSE 0])
        /\ UNCHANGED <<store, calc, issued, fileExists, headerOk, wav, metaFile, segLock, trackLock,
                       faults, applied>>

\* lines 261-262: the segment lock is acquired within the timeout
DegradeLockAcquire(p) ==
    /\ th[p].pc = "d_lock"
    /\ lock_is_free(segLock, th[p].seg)
    /\ segLock' = acquire_lock(segLock, th[p].seg, p)
    /\ th' = [th EXCEPT ![p].cntAtLock = metaFile.counts[th[p].seg],
                        ![p].pc = "d_locked"]
    /\ UNCHANGED <<store, calc, issued, fileExists, headerOk, wav, metaFile, trackLock,
                   started, faults, applied>>

\* lines 298-299: the lock timed out: 503, nothing else is done
DegradeLockTimeout(p) ==
    /\ th[p].pc = "d_lock"
    /\ ~lock_is_free(segLock, th[p].seg)
    /\ segLock' = acquire_lock(segLock, th[p].seg, p)
    /\ th' = [th EXCEPT ![p] = Leave(th[p], "failed", "503")]
    /\ UNCHANGED <<store, calc, issued, fileExists, headerOk, wav, metaFile, trackLock,
                   started, faults, applied>>

\* lines 264-280: play_count from the metadata loaded before the lock,
\* read_segment, apply_dropout
DegradeReadDegrade(p) ==
    /\ th[p].pc = "d_locked"
    /\ Readable
    /\ \E degraded_audio \in DropoutOutcomes(read_segment(wav, th[p].seg),
                                             th[p].md.counts[th[p].seg],
                                             DegradationRate) :
          th' = [th EXCEPT ![p].play_count = th[p].md.counts[th[p].seg],
                           ![p].audio = read_segment(wav, th[p].seg),
                           ![p].degraded = degraded_audio,
                           ![p].pc = "d_write"]
    /\ UNCHANGED <<store, calc, issued, fileExists, headerOk, wav, metaFile, segLock, trackLock,
                   started, faults, applied>>

\* seeded fault:the lock is taken without the with block, so that an
\* exception leaves it held
DegradeAbortKeepsLock(p, what) ==
    /\ segLock' = segLock
    /\ th' = [th EXCEPT ![p] =
                Leave([th[p] EXCEPT !.failed = @ \cup {<<what, th[p].seg>>}],
                      "failed", "500")]

\* an exception inside the with block of degrade_segment: the lock is
\* released and line 301-302 answers 500
DegradeAbort(p, what) ==
    /\ segLock' = release_lock(segLock, th[p].seg, p)
    /\ th' = [th EXCEPT ![p] =
                Leave([th[p] EXCEPT !.failed = @ \cup {<<what, th[p].seg>>}],
                      "failed", "500")]

\* lines 268-272: read_segment raises (an I/O failure, or a container that
\* is missing or unparseable)
DegradeReadFail(p) ==
    /\ th[p].pc = "d_locked"
    /\ IF Readable
       THEN faults < MaxFaults /\ faults' = faults + 1
       ELSE faults' = faults
    /\ DegradeAbort(p, "read")
    /\ UNCHANGED <<store, calc, issued, fileExists, headerOk, wav, metaFile, trackLock,
                   started, applied>>

\* seeded fault:the with block ends after the write, so that the increment
\* runs with the segment lock released
DegradeWriteThenRelease(p) ==
    /\ th[p].pc = "d_write"
    /\ wav' = write_segment(wav, th[p].seg, th[p].degraded)
    /\ segLock' = release_lock(segLock, th[p].seg, p)
    /\ th' = [th EXCEPT ![p].pc = "inc_seg"]
    /\ UNCHANGED <<store, calc, issued, fileExists, headerOk, metaFile, trackLock,
                   started, faults, applied>>

\* lines 283-288: write_segment, then on to the increment
DegradeWrite(p) ==
    /\ th[p].pc = "d_write"
    /\ wav' = write_segment(wav, th[p].seg, th[p].degraded)
    /\ th' = [th EXCEPT ![p].pc = "inc_seg"]
    /\ UNCHANGED <<store, calc, issued, fileExists, headerOk, metaFile, segLock, trackLock,
                   started, faults, applied>>

\* lines 283-288: write_segment raises
DegradeWriteFail(p) ==
    /\ th[p].pc = "d_write"
    /\ faults < MaxFaults
    /\ faults' = faults + 1
    /\ DegradeAbort(p, "write")
    /\ UNCHANGED <<store, calc, issued, fileExists, headerOk, wav, metaFile, trackLock,
                   started, applied>>

\* lines 293-297: the response carries play_count + 1; the with block is
\* left and the segment lock released
DegradeReturn(p) ==
    /\ th[p].pc = "d_ret"
    /\ segLock' = release_lock(segLock, th[p].seg, p)
    /\ th' = [th EXCEPT ![p] =
                Leave([th[p] EXCEPT !.reply = th[p].play_count + 1],
                      "done", "success")]
    /\ applied' = [applied EXCEPT ![th[p].seg] = Append(@, th[p].play_count)]
    /\ UNCHANGED <<store, calc, issued, fileExists, headerOk, wav, metaFile, trackLock,
                   started, faults>>

\* ------------------------------------ app.py: stream_audio (GET /stream)
\* seeded fault:the Range header is not looked at
RouteStartCountsRange(p, has_range) ==
    /\ Begin(p, [Fresh EXCEPT
                   !.kind = "route",
                   !.range = has_range,
                   !.pc = IF ~fileExists THEN "failed" ELSE "inc_total",
                   !.result = IF ~fileExists THEN "404" ELSE ""])
    /\ UNCHANGED <<store, calc, fileExists, headerOk, wav, metaFile, segLock, trackLock,
                   faults, applied>>

\* lines 155-163: 404 for a missing file; total_streams is incremented
\* unless the request carries a Range header
RouteStart(p, has_range) ==
    /\ Begin(p, [Fresh EXCEPT
                   !.kind = "route",
                   !.range = has_range,
                   !.pc = IF ~fileExists THEN "failed"
                          ELSE IF has_range THEN "r_send" ELSE "inc_total",
                   !.result = IF ~fileExists THEN "404" ELSE ""])
    /\ UNCHANGED <<store, calc, issued, fileExists, headerOk, wav, metaFile, segLock, trackLock,
                   faults, applied>>

\* lines 166-219: the bytes of the file are sent as they are
RouteSend(p) ==
    /\ th[p].pc = "r_send"
    /\ th' = [th EXCEPT ![p] =
                Leave([th[p] EXCEPT !.out = <<HeaderChunk>>], "done",
                      IF th[p].range THEN "206" ELSE "200")]
    /\ UNCHANGED <<store, calc, issued, fileExists, headerOk, wav, metaFile, segLock, trackLock,
                   started, faults, applied>>

\* ------------------------------------ metadata.py: scan_and_initialize
\* seeded fault:the record is written anew whether or not the track has one
ScanAndInitializeAlways ==
    /\ fileExists
    /\ trackLock = NoProc
    /\ metaFile' = IF Readable
                   THEN [InitialRecord EXCEPT !.created_at = 1]
                   ELSE metaFile
    /\ UNCHANGED <<store, calc, issued, fileExists, headerOk, wav, segLock, trackLock, th,
                   started, faults, applied>>

\* lines 62-72, run again while the server is serving: a track of the audio
\* directory that has no counters record gets a zeroed one; a record that
\* exists is left alone; an unparseable container makes
\* initialize_track_metadata raise, which is printed.  Until the new file is
\* closed every reader gets None, as it does of a missing file.
ScanAndInitialize ==
    /\ fileExists
    /\ metaFile' = IF ~metaFile.exists /\ Readable
                   THEN [InitialRecord EXCEPT !.created_at = 1]
                   ELSE metaFile
    /\ UNCHANGED <<store, calc, issued, fileExists, headerOk, wav, segLock, trackLock, th,
                   started, faults, applied>>

\* ------------------------------------------------------- specification
RequestStep(p) ==
        \/ \E start_seconds \in StartOffsets : StreamStart(p, start_seconds)
        \/ IncrementTotalStreamsBegin(p)
        \/ IncrementTotalStreamsEnd(p)
        \/ IncrementTotalStreamsFail(p)
        \/ StreamEmitHeader(p)
        \/ StreamPullHeader(p)
        \/ StreamSkipNoMetadata(p)
        \/ StreamLockAcquire(p)
        \/ StreamLockTimeout(p)
        \/ StreamReadDegrade(p)
        \/ StreamReadFail(p)
        \/ IncrementSegmentBegin(p)
        \/ IncrementSegmentEnd(p)
        \/ IncrementSegmentFail(p)
        \/ StreamWrite(p)
        \/ StreamWriteFail(p)
        \/ StreamPullLocked(p)
        \/ StreamReadOnly(p)
        \/ StreamReadOnlyFail(p)
        \/ StreamPullReadOnly(p)
        \/ StreamReload(p)
        \/ StreamClose(p)
        \/ \E segment_index \in RequestedIndices : DegradeStart(p, segment_index)
        \/ DegradeLockAcquire(p)
        \/ DegradeLockTimeout(p)
        \/ DegradeReadDegrade(p)
        \/ DegradeReadFail(p)
        \/ DegradeWrite(p)
        \/ DegradeWriteFail(p)
        \/ DegradeReturn(p)
        \/ \E has_range \in BOOLEAN : RouteStart(p, has_range)
        \/ RouteSend(p)

Next ==
    \/ \E p \in Procs : RequestStep(p)
    \/ ScanAndInitialize

Spec == Init /\ [][Next]_vars

\* the steps that the thread of a request takes by itself, failures aside
Run(p) ==
    \/ IncrementTotalStreamsBegin(p) \/ IncrementTotalStreamsEnd(p)
    \/ IncrementSegmentBegin(p) \/ IncrementSegmentEnd(p)
    \/ StreamEmitHeader(p) \/ StreamSkipNoMetadata(p)
    \/ StreamLockAcquire(p) \/ StreamLockTimeout(p)
    \/ StreamReadDegrade(p) \/ StreamWrite(p)
    \/ StreamReadOnly(p) \/ StreamReload(p)
    \/ DegradeLockAcquire(p) \/ DegradeLockTimeout(p)
    \/ DegradeReadDegrade(p) \/ DegradeReadFail(p)
    \/ DegradeWrite(p) \/ DegradeReturn(p)
    \/ RouteSend(p)

\* the consumer of a stream asks for the next chunk
Pull(p) == StreamPullHeader(p) \/ StreamPullLocked(p) \/ StreamPullReadOnly(p)

\* a thread that can run does run; consumers are under no obligation
LiveSpec == Spec /\ \A p \in Procs : WF_vars(Run(p))

\* ------------------------------------ lock_manager.py: the manager alone
\* threads calling acquire_lock and release_lock in any order; a thread's
\* record keeps its last call and what the call returned
LockInit ==
    /\ fileExists = TRUE
    /\ headerOk = TRUE
    /\ wav = [k \in 1 .. NumFrames |-> k]
    /\ metaFile = InitialRecord
    /\ segLock = [i \in Segments |-> NoLock]
    /\ trackLock = NoProc
    /\ th = [p \in Procs |-> Fresh]
    /\ started = 0
    /\ faults = 0
    /\ applied = [i \in Segments |-> <<>>]
    /\ issued = NoneIssued
    /\ store = NoStore
    /\ calc = NoCall

\* lines 42-54: acquire_lock returns True with the lock taken, or False
\* after the timeout (also when the caller holds the lock itself: a
\* threading.Lock is not reentrant)
AcquireLock(p, segment_index) ==
    /\ segLock' = acquire_lock(segLock, segment_index, p)
    /\ th' = [th EXCEPT ![p] =
                [Fresh EXCEPT !.kind = "acquire_lock", !.seg = segment_index,
                              !.result = IF lock_is_free(segLock, segment_index)
                                         THEN "True" ELSE "False"]]
    /\ UNCHANGED <<store, calc, issued, fileExists, headerOk, wav, metaFile, trackLock,
                   started, faults, applied>>

\* lines 56-69: release_lock returns None, whether lock.release() unlocked
\* the lock or raised RuntimeError
ReleaseLock(p, segment_index) ==
    /\ segLock' = release_lock(segLock, segment_index, p)
    /\ th' = [th EXCEPT ![p] =
                [Fresh EXCEPT !.kind = "release_lock", !.seg = segment_index,
                              !.result = "None"]]
    /\ UNCHANGED <<store, calc, issued, fileExists, headerOk, wav, metaFile, trackLock,
                   started, faults, applied>>

LockNext ==
    \E p \in Procs :
        \E segment_index \in Segments :
            \/ AcquireLock(p, segment_index)
            \/ ReleaseLock(p, segment_index)

LockSpec == LockInit /\ [][LockNext]_vars

\* ------------------------------------- wav_handler.py on a container file
\* A container is the file byte by byte: bytes[k] is the byte at file offset
\* k - 1.  data_offset is where the wave module finds the first frame (the
\* end of the header of the "data" chunk) and frame_bytes is
\* sample_width * channels; both are decoded from the "fmt " chunk and the
\* chunk headers, which lie below offset 44 - 4 and are never written.

\* where the frames start: after the canonical 44-byte header, or after a
\* header with an 18-byte "fmt " chunk (WAVE_FORMAT_PCM with cbSize)
DataOffsets == {HeaderSize, HeaderSize + 2}
\* sample_width * channels: 16-bit mono, 16-bit stereo
FrameBytes == {2, 4}
\* a header byte that is not the size of the "data" chunk
OpaqueByte == 255

\* the four bytes of a chunk size, little-endian
LittleEndian(n, k) ==
    IF k = 0 THEN n % 256
    ELSE IF k = 1 THEN (n \div 256) % 256
    ELSE IF k = 2 THEN (n \div 65536) % 256
    ELSE (n \div 16777216) % 256

\* wave.open(path, 'wb') ... writeframes: the header, whose last four bytes
\* are the size of the "data" chunk, then the frames; every byte of frame f
\* is f
Container(data_offset, frame_bytes, num_frames) ==
    LET file == [k \in 1 .. data_offset + num_frames * frame_bytes |->
                   IF k <= data_offset - 4 THEN OpaqueByte
                   ELSE IF k <= data_offset
                        THEN LittleEndian(num_frames * frame_bytes,
                                          k - (data_offset - 4) - 1)
                        ELSE ((k - data_offset - 1) \div frame_bytes) + 1]
    IN  [bytes |-> file, original |-> file,
         data_offset |-> data_offset, frame_bytes |-> frame_bytes]

\* the size field of the "data" chunk as the wave module decodes it
DataChunkSize(file, data_offset) ==
    file[data_offset - 3] + 256 * file[data_offset - 2]
      + 65536 * file[data_offset - 1] + 16777216 * file[data_offset]

\* get_wav_info: getparams() of the file; nframes is the chunk size over the
\* frame size
get_wav_info(file, data_offset, frame_bytes) ==
    [frame_bytes |-> frame_bytes,
     num_frames |-> DataChunkSize(file, data_offset) \div frame_bytes]

\* total_segments of the track, computed once from the container as it was
\* when the track was initialised
StoreSegments(container) ==
    0 .. (((get_wav_info(container.original, container.data_offset,
                         container.frame_bytes).num_frames
            + SamplesPerSegment - 1) \div SamplesPerSegment) - 1)

\* read_segment: wav_file.setpos(start_frame); readframes(samples_per_segment)
\* reads from the start of the frames of the "data" chunk, up to the end of
\* the chunk and of the file
ReadRange(container, segment_index) ==
    LET info == get_wav_info(container.bytes, container.data_offset,
                             container.frame_bytes)
        start == segment_index * SamplesPerSegment * container.frame_bytes
        chunk == Min(info.num_frames * container.frame_bytes,
                     Len(container.bytes) - container.data_offset)
        n == Max(Min(SamplesPerSegment * container.frame_bytes, chunk - start), 0)
    IN  { container.data_offset + start + k : k \in 1 .. n }

read_segment_bytes(container, segment_index) ==
    LET start == container.data_offset
                   + segment_index * SamplesPerSegment * container.frame_bytes
    IN  [k \in 1 .. Cardinality(ReadRange(container, segment_index)) |->
            container.bytes[start + k]]

\* write_segment: byte_offset = header_size + start_frame * bytes_per_sample
\* with header_size = 44; f.seek(byte_offset); f.write(audio_bytes)
write_segment_bytes(container, segment_index, audio_bytes) ==
    LET byte_offset == HeaderSize
                         + segment_index * SamplesPerSegment * container.frame_bytes
        file == container.bytes
    IN  [k \in 1 .. Max(Len(file), byte_offset + Len(audio_bytes)) |->
            IF k > byte_offset /\ k <= byte_offset + Len(audio_bytes)
            THEN audio_bytes[k - byte_offset]
            ELSE IF k <= Len(file) THEN file[k] ELSE 0]

\* the bytes write_segment writes when it is given the buffer that
\* read_segment returned for the same index
WrittenRange(container, segment_index) ==
    { HeaderSize + segment_index * SamplesPerSegment * container.frame_bytes + k :
        k \in 1 .. Len(read_segment_bytes(container, segment_index)) }

\* apply_dropout on the buffer reshaped to (-1, channels): a dropped frame
\* is zeroed in all its bytes
DropoutOutcomesBytes(audio_bytes, frame_bytes, play_count, degradation_rate) ==
    { apply_dropout(audio_bytes, play_count, degradation_rate,
                    [k \in 1 .. Len(audio_bytes) |->
                       rnd[((k - 1) \div frame_bytes) + 1]]) :
        rnd \in [1 .. (Len(audio_bytes) \div frame_bytes) -> RandomValues] }

StoreInit ==
    /\ fileExists = TRUE
    /\ headerOk = TRUE
    /\ wav = [k \in 1 .. NumFrames |-> k]
    /\ metaFile = InitialRecord
    /\ segLock = [i \in Segments |-> NoLock]
    /\ trackLock = NoProc
    /\ th = [p \in Procs |-> Fresh]
    /\ started = 0
    /\ faults = 0
    /\ applied = [i \in Segments |-> <<>>]
    /\ issued = NoneIssued
    /\ calc = NoCall
    /\ store \in { Container(data_offset, frame_bytes, num_frames) :
                      data_offset \in DataOffsets,
                      frame_bytes \in FrameBytes,
                      num_frames \in 1 .. NumFrames }

\* read_segment, apply_dropout, write_segment on one segment, as
\* stream_audio and degrade_segment call them under the segment lock; with
\* play_count 0 the buffer written is the buffer read
StoreDegradeSegment(segment_index, play_count) ==
    /\ segment_index \in StoreSegments(store)
    /\ \E degraded_audio \in
            DropoutOutcomesBytes(read_segment_bytes(store, segment_index),
                                 store.frame_bytes, play_count, DegradationRate) :
          store' = [store EXCEPT
                      !.bytes = write_segment_bytes(store, segment_index,
                                                    degraded_audio)]
    /\ UNCHANGED <<calc, issued, fileExists, headerOk, wav, metaFile, segLock,
                   trackLock, th, started, faults, applied>>

StoreNext ==
    \E segment_index \in 0 .. NumFrames :
        \E play_count \in 0 .. MaxRequests :
            StoreDegradeSegment(segment_index, play_count)

StoreSpec == StoreInit /\ [][StoreNext]_vars

\* ------------------------------------------ the functions on their own
\* sum(play_counts)
RECURSIVE SumCounts(_)
SumCounts(counts) ==
    IF DOMAIN counts = {} THEN 0
    ELSE LET i == CHOOSE i \in DOMAIN counts : TRUE
         IN  counts[i]
               + SumCounts([j \in DOMAIN counts \ {i} |-> counts[j]])

\* seeded fault:the average times the rate is returned as it is
get_overall_degradation_uncapped(metadata, degradation_rate) ==
    IF ~metadata.ok \/ DOMAIN metadata.counts = {}
    THEN [num |-> 0, den |-> 1]
    ELSE [num |-> SumCounts(metadata.counts) * degradation_rate,
          den |-> Cardinality(DOMAIN metadata.counts)]

\* get_overall_degradation on the result of get_track_metadata:
\* min(sum(play_counts) / len(play_counts) * degradation_rate, 100.0), as
\* the fraction num / den with den = len(play_counts); 0.0 for None and for
\* an empty table
get_overall_degradation(metadata, degradation_rate) ==
    IF ~metadata.ok \/ DOMAIN metadata.counts = {}
    THEN [num |-> 0, den |-> 1]
    ELSE [num |-> Min(SumCounts(metadata.counts) * degradation_rate,
                      100 * Cardinality(DOMAIN metadata.counts)),
          den |-> Cardinality(DOMAIN metadata.counts)]

\* the play counts the functions are called with: small ones, and those of
\* the tests (100 plays and more)
PlayCounts == (0 .. MaxPlayCount) \cup {100, 150}
\* degradation rates, in percent per play: none, the default, the
\* configured one, more than everything at once
Rates == {0, 1, DegradationRate, 150}
\* the values of a sample
SampleValues == {-5, 0, 7}
\* audio buffers of at most MaxBuffer frames
Buffers == UNION { [1 .. n -> SampleValues] : n \in 0 .. MaxBuffer }
\* the channels of a stereo buffer
Channels == 1 .. 2
\* stereo buffers of at most MaxBuffer frames
StereoBuffers ==
    UNION { [1 .. n -> [Channels -> SampleValues]] : n \in 0 .. MaxBuffer }
\* start offsets handed to get_segment_range, in frames: before the start
\* of the track by more than a segment, inside it, beyond its end
RangeStarts == (-(2 * SamplesPerSegment) - 1) .. (NumFrames + 2 * SamplesPerSegment)
\* total_segments of a track that has at least one frame
SegmentTotals == 1 .. (TotalSegments + 1)
\* sample rates of a container, in frames per second
SampleRates == 1 .. 4
\* segment durations in seconds, as fractions <<numerator, denominator>>:
\* the default 0.5, and 1.0 and 1.5
SegmentDurations == {<<1, 2>>, <<1, 1>>, <<3, 2>>}
\* num_frames of a container
FrameCounts == 1 .. (2 * NumFrames)
\* the tables of play counts of a track
PlayCountTables == [Segments -> PlayCounts]

CalcInit ==
    /\ fileExists = TRUE
    /\ headerOk = TRUE
    /\ wav = [k \in 1 .. NumFrames |-> k]
    /\ metaFile = InitialRecord
    /\ segLock = [i \in Segments |-> NoLock]
    /\ trackLock = NoProc
    /\ th = [p \in Procs |-> Fresh]
    /\ started = 0
    /\ faults = 0
    /\ applied = [i \in Segments |-> <<>>]
    /\ issued = NoneIssued
    /\ store = NoStore
    /\ calc = NoCall

\* apply_dropout(audio_samples, play_count, degradation_rate) returns
CallApplyDropout(audio_samples, play_count, degradation_rate) ==
    /\ calc.fn = "none"
    /\ \E degraded \in DropoutOutcomes(audio_samples, play_count, degradation_rate) :
          calc' = [fn |-> "apply_dropout",
                   args |-> <<audio_samples, play_count, degradation_rate>>,
                   result |-> degraded]
    /\ UNCHANGED <<store, issued, fileExists, headerOk, wav, metaFile, segLock,
                   trackLock, th, started, faults, applied>>

\* get_overall_degradation(filename, degradation_rate) returns, the
\* counters file holding the table play_counts or (has_record false) not
\* being there
CallGetOverallDegradation(has_record, play_counts, degradation_rate) ==
    /\ calc.fn = "none"
    /\ calc' = [fn |-> "get_overall_degradation",
                args |-> <<has_record, play_counts, degradation_rate>>,
                result |-> get_overall_degradation(
                             IF has_record
                             THEN [ok |-> TRUE, counts |-> play_counts,
                                   total_streams |-> 0]
                             ELSE None,
                             degradation_rate)]
    /\ UNCHANGED <<store, issued, fileExists, headerOk, wav, metaFile, segLock,
                   trackLock, th, started, faults, applied>>

\* apply_dropout(audio_samples, play_count, degradation_rate) returns, the
\* buffer being of shape (samples, channels); the draw of np.random.random
\* is kept with the call
CallApplyDropoutMultichannel(audio_frames, play_count, degradation_rate) ==
    /\ calc.fn = "none"
    /\ \E rnd \in [1 .. Len(audio_frames) -> RandomValues] :
          calc' = [fn |-> "apply_dropout_multichannel",
                   args |-> <<audio_frames, play_count, degradation_rate, rnd>>,
                   result |-> apply_dropout_multichannel(audio_frames, play_count,
                                                         degradation_rate, rnd)]
    /\ UNCHANGED <<store, issued, fileExists, headerOk, wav, metaFile, segLock,
                   trackLock, th, started, faults, applied>>

\* get_segment_range(start_seconds, duration, total_segments) returns
CallGetSegmentRange(start_seconds, total_segments) ==
    /\ calc.fn = "none"
    /\ calc' = [fn |-> "get_segment_range",
                args |-> <<start_seconds, total_segments>>,
                result |-> get_segment_range_indices(start_seconds, total_segments)]
    /\ UNCHANGED <<store, issued, fileExists, headerOk, wav, metaFile, segLock,
                   trackLock, th, started, faults, applied>>

\* read_segment, write_segment: int(sample_rate * segment_duration)
samples_per_segment_of(sample_rate, segment_duration) ==
    (sample_rate * segment_duration[1]) \div segment_duration[2]

\* calculate_total_segments: int(np.ceil(duration / segment_duration)) with
\* duration = num_frames / sample_rate
calculate_total_segments_of(num_frames, sample_rate, segment_duration) ==
    (num_frames * segment_duration[2] + sample_rate * segment_duration[1] - 1)
        \div (sample_rate * segment_duration[1])

\* the segments of a container as the program lays them out: how many
\* (initialize_track_metadata) and how many frames to each (read_segment)
CallSegmentLayout(num_frames, sample_rate, segment_duration) ==
    /\ calc.fn = "none"
    /\ calc' = [fn |-> "segment_layout",
                args |-> <<num_frames, sample_rate, segment_duration>>,
                result |-> [samples_per_segment |->
                              samples_per_segment_of(sample_rate, segment_duration),
                            total_segments |->
                              calculate_total_segments_of(num_frames, sample_rate,
                                                          segment_duration)]]
    /\ UNCHANGED <<store, issued, fileExists, headerOk, wav, metaFile, segLock,
                   trackLock, th, started, faults, applied>>

\* calculate_dropout_rate(play_count, degradation_rate) returns
CallCalculateDropoutRate(play_count, degradation_rate) ==
    /\ calc.fn = "none"
    /\ calc' = [fn |-> "calculate_dropout_rate",
                args |-> <<play_count, degradation_rate>>,
                result |-> calculate_dropout_rate(play_count, degradation_rate)]
    /\ UNCHANGED <<store, issued, fileExists, headerOk, wav, metaFile, segLock,
                   trackLock, th, started, faults, applied>>

\* the caller has used the result
CallDone ==
    /\ calc.fn # "none"
    /\ calc' = NoCall
    /\ UNCHANGED <<store, issued, fileExists, headerOk, wav, metaFile, segLock,
                   trackLock, th, started, faults, applied>>

CalcNext ==
    \/ \E audio_samples \in Buffers, play_count \in PlayCounts,
          degradation_rate \in Rates :
          CallApplyDropout(audio_samples, play_count, degradation_rate)
    \/ \E has_record \in BOOLEAN, play_counts \in PlayCountTables,
          degradation_rate \in Rates :
          CallGetOverallDegradation(has_record, play_counts, degradation_rate)
    \/ \E audio_frames \in StereoBuffers, play_count \in PlayCounts,
          degradation_rate \in Rates :
          CallApplyDropoutMultichannel(audio_frames, play_count, degradation_rate)
    \/ \E start_seconds \in RangeStarts, total_segments \in SegmentTotals :
          CallGetSegmentRange(start_seconds, total_segments)
    \/ \E num_frames \in FrameCounts, sample_rate \in SampleRates,
          segment_duration \in SegmentDurations :
          CallSegmentLayout(num_frames, sample_rate, segment_duration)
    \/ \E play_count \in PlayCounts, degradation_rate \in Rates :
          CallCalculateDropoutRate(play_count, degradation_rate)
    \/ CallDone

CalcSpec == CalcInit /\ [][CalcNext]_vars

\* ---------------------------------------------------------------- claims
\* positions of a request inside the block "if lock.acquired:"
LockedSection ==
    {"s_locked", "s_write", "y_locked", "d_locked", "d_write", "d_ret",
     "inc_seg", "inc_seg_w"}

InCriticalSection(p, i) == th[p].pc \in LockedSection /\ th[p].seg = i

\* a request that has asked, or is about to ask, for the lock of segment i
Contends(p, i) == th[p].pc \in {"s_iter", "d_lock"} /\ th[p].seg = i

Distinct(seq) ==
    \A a, b \in 1 .. Len(seq) : a # b => seq[a] # seq[b]

Occurrences(seq, x) == Cardinality({k \in 1 .. Len(seq) : seq[k] = x})

\* a failure of kind what was injected into the request of p, at segment i
FailedAt(p, what, i) == <<what, i>> \in th[p].failed

\* the counters record as a reader holding the track lock finds it
Persisted == get_track_metadata(metaFile)

\* C1: for every segment, at most one request at a time is inside the
\* lock-acquired section (read samples, degrade, write samples), in
\* stream_audio and degrade_segment alike, and that request is the one
\* holding the segment's lock: a writer's read-modify-write of the segment
\* is over before the next writer's read begins.
C1_OneWriterPerSegment ==
    \A i \in Segments :
        \A p \in Procs :
            InCriticalSection(p, i) =>
                /\ segLock[i] = p
                /\ \A q \in Procs \ {p} : ~InCriticalSection(q, i)

\* a request is inside the locked section of a segment while another one
\* asks for the same segment
C1_Witness ==
    \E i \in Segments :
        \E p \in Procs :
            \E q \in Procs \ {p} :
                InCriticalSection(p, i) /\ Contends(q, i)

\* C2: the play counts that the successful degrade passes of one segment
\* (force-degrade requests and locked stream steps) passed to apply_dropout
\* are pairwise distinct: no two of them used the same pre-increment count.
C2_PlayCountsDistinct ==
    \A i \in Segments : Distinct(applied[i])

\* C3: when no failure occurred and no request is inside the locked section
\* of a segment, the persisted play count of the segment is its value at
\* creation (0) plus the number of degrade passes that acquired the lock
\* and succeeded, whatever their interleaving.
C3_CountIsPriorPlusN ==
    \A i \in Segments :
        (/\ faults = 0
         /\ Persisted.ok
         /\ \A p \in Procs : ~InCriticalSection(p, i))
        => Persisted.counts[i] = Len(applied[i])

\* two force-degrade requests that overlapped in time have both succeeded
\* on the same segment
C3_Witness ==
    \E i \in Segments :
        /\ faults = 0
        /\ Persisted.ok
        /\ Len(applied[i]) = 2
        /\ \A p \in Procs :
              /\ th[p].kind = "degrade"
              /\ th[p].result = "success"
              /\ ~th[p].alone

\* C4: a request whose lock acquisition timed out changes neither the
\* counters record nor the container nor any lock: the stream step reads
\* the segment and emits it unmodified, the force-degrade request answers
\* an error and ends.
C4_TimeoutChangesNothing ==
    [][\A p \in Procs :
         (/\ th'[p].pc # th[p].pc
          /\ \/ th[p].pc \in {"s_ro", "y_ro"}
             \/ th[p].pc = "s_iter" /\ th'[p].pc = "s_ro"
             \/ th[p].pc = "d_lock" /\ th'[p].result = "503")
         => /\ wav' = wav
            /\ metaFile' = metaFile
            /\ segLock' = segLock
            /\ trackLock' = trackLock
            /\ (th[p].pc = "d_lock" => th'[p].pc = "failed")
            /\ (th'[p].pc = "y_ro" =>
                   /\ th'[p].lastChunk = read_segment(wav, th[p].seg)
                   /\ th'[p].out = Append(th[p].out, th[p].seg))]_vars

\* a stream has emitted a segment in read-only mode after a timeout, the
\* holder of the lock having degraded that segment in the meantime
C4_Witness ==
    \E p \in Procs :
        /\ th[p].pc = "y_ro"
        /\ th[p].lastChunk = read_segment(wav, th[p].seg)
        /\ \E k \in 1 .. Len(th[p].lastChunk) : th[p].lastChunk[k] # 0
        /\ \E q \in Procs \ {p} : InCriticalSection(q, th[p].seg)

\* a stream that ran with no other request beside it and met no failure
Uncontended(p) == th[p].alone /\ th[p].failed = {} /\ th[p].base.ok

\* C5: an uncontended stream_audio run consumed to the end, with no
\* failure, leaves every play count below startIndex as it was and raises
\* every play count from startIndex on by exactly 1.
C5_StreamCountsOncePerSegment ==
    \A p \in Procs :
        (th[p].kind = "stream" /\ th[p].pc = "done" /\ Uncontended(p))
        => /\ Persisted.ok
           /\ \A i \in Segments :
                 Persisted.counts[i] =
                    th[p].base.counts[i] + (IF i >= th[p].startIdx THEN 1 ELSE 0)

\* an uncontended stream from an offset inside the last segment has ended,
\* on a track that had been played before
C5_Witness ==
    \E p \in Procs :
        /\ th[p].kind = "stream" /\ th[p].pc = "done" /\ Uncontended(p)
        /\ th[p].startIdx = TotalSegments - 1
        /\ th[p].startIdx > 0
        /\ \E i \in Segments : th[p].base.counts[i] > 0

\* C6: a full GET /stream request (no Range header) consumed to the end
\* raises every play count of the track by 1 and total_streams by 1.
C6_RouteCountsEverySegment ==
    \A p \in Procs :
        (/\ th[p].kind = "route" /\ th[p].pc = "done" /\ ~th[p].range
         /\ Readable /\ Uncontended(p))
        => /\ Persisted.ok
           /\ Persisted.total_streams = th[p].base.total_streams + 1
           /\ \A i \in Segments :
                 Persisted.counts[i] = th[p].base.counts[i] + 1

\* C7: a stream that has emitted its header and was consumed to its end
\* has emitted exactly one chunk for every segment of its range whose
\* sample read did not fail, whatever timed out, failed to be written or
\* counted, or happened to the counters record meanwhile.
C7_StreamNeverCutShort ==
    \A p \in Procs :
        (th[p].kind = "stream" /\ th[p].pc = "done")
        => \A i \in Segments :
              (i >= th[p].startIdx /\ ~FailedAt(p, "read", i))
              => Occurrences(th[p].out, i) = 1

\* C8: when the write-back fails in the locked step of stream_audio (and
\* the increment did not fail), the chunk emitted is the degraded buffer,
\* an output of apply_dropout for the samples read and the play count
\* used, and the segment's persisted count is one more than it was when
\* the lock was acquired.
C8_WriteFailureStillEmitsAndCounts ==
    \A p \in Procs :
        (/\ th[p].pc = "y_locked"
         /\ FailedAt(p, "write", th[p].seg)
         /\ ~FailedAt(p, "inc", th[p].seg))
        => /\ th[p].out[Len(th[p].out)] = th[p].seg
           /\ th[p].lastChunk = th[p].degraded
           /\ th[p].lastChunk \in
                 DropoutOutcomes(th[p].audio, th[p].play_count, DegradationRate)
           /\ metaFile.counts[th[p].seg] = th[p].cntAtLock + 1

\* a write-back failed on a segment that the degradation zeroed entirely,
\* while the container still holds the samples read
C8_Witness ==
    \E p \in Procs :
        /\ th[p].pc = "y_locked"
        /\ FailedAt(p, "write", th[p].seg)
        /\ th[p].lastChunk # th[p].audio
        /\ read_segment(wav, th[p].seg) = th[p].audio
        /\ metaFile.counts[th[p].seg] = 2

\* the container is missing or unparseable, or the track has no counters
\* record
BadTrack == ~fileExists \/ ~headerOk \/ ~metaFile.exists

InitialFrames == [k \in 1 .. NumFrames |-> k]

\* C9: on such a track stream_audio fails at once: the request has emitted
\* nothing, holds no lock, and has changed neither total_streams nor a play
\* count nor a sample of the container.
C9_BadTrackFailsBeforeAnything ==
    \A p \in Procs :
        (BadTrack /\ th[p].kind = "stream")
        => /\ th[p].pc = "failed"
           /\ th[p].result \in {"FileNotFoundError", "ValueError"}
           /\ th[p].out = <<>>
           /\ trackLock # p
           /\ \A i \in Segments : segLock[i] # p
           /\ wav = InitialFrames
           /\ (th[p].alone =>
                  /\ metaFile.total_streams = th[p].base.total_streams
                  /\ metaFile.counts = th[p].base.counts)

\* a stream was asked of a track whose container is there but whose
\* counters record is not
C9_Witness ==
    \E p \in Procs :
        /\ th[p].kind = "stream" /\ th[p].pc = "failed"
        /\ fileExists /\ headerOk /\ ~metaFile.exists

\* C10: a stream whose consumer closed it at a chunk-emission point is
\* over: it is in its final position and holds no lock, and the step that
\* closed it changed neither the container nor the counters record, and
\* acquired no lock.
C10_ClosedStreamDoesNothing ==
    [][\A p \in Procs :
         th'[p].cancelled =>
            /\ th'[p].pc = "closed"
            /\ trackLock' # p
            /\ \A i \in Segments : segLock'[i] # p
            /\ (~th[p].cancelled =>
                  /\ wav' = wav
                  /\ metaFile' = metaFile
                  /\ trackLock' = trackLock
                  /\ applied' = applied
                  /\ \A i \in Segments : segLock'[i] \in {segLock[i], NoProc})]_vars

\* a stream was closed while it held the lock of a segment it had just
\* degraded, with segments still to come
C10_Witness ==
    \E p \in Procs :
        /\ th[p].cancelled
        /\ Len(th[p].out) = 2
        /\ th[p].startIdx = 0
        /\ TotalSegments > 1
        /\ Len(applied[0]) > 0

\* C11: a segment lock that is held is held by a request that is inside the
\* with block of that segment; a request that has ended (normal end,
\* consumer close, exception, lock timeout) holds neither a segment lock nor
\* the track lock, so the lock of a segment that no request is working on
\* can be acquired.
C11_NoLockAfterExit ==
    /\ \A i \in Segments :
          segLock[i] \in Procs =>
             /\ th[segLock[i]].pc \in LockedSection
             /\ th[segLock[i]].seg = i
    /\ \A p \in Procs :
          th[p].pc \in Terminal =>
             /\ trackLock # p
             /\ \A i \in Segments : segLock[i] # p
    /\ \A i \in Segments :
          (\A p \in Procs : ~InCriticalSection(p, i)) => lock_is_free(segLock, i)

\* a force-degrade request ended with an exception inside the with block
\* of a segment, and another request has acquired that segment's lock since
C11_Witness ==
    \E i \in Segments :
        \E p \in Procs :
            \E q \in Procs \ {p} :
                /\ th[p].pc = "failed"
                /\ FailedAt(p, "write", i)
                /\ segLock[i] = q

\* C12: while the track has a counters record, no step removes the record
\* or lowers a play count or total_streams: streams, force-degrades,
\* increments and scans of the audio directory only ever raise them.
C12_CountsNeverDecrease ==
    [][metaFile.exists =>
         /\ metaFile'.exists
         /\ metaFile'.total_streams >= metaFile.total_streams
         /\ \A i \in Segments : metaFile'.counts[i] >= metaFile.counts[i]]_vars

\* a record made by a scan during service has counted plays since
C12_Witness ==
    /\ metaFile.created_at = 1
    /\ metaFile.total_streams >= 1
    /\ \E i \in Segments : metaFile.counts[i] >= 2

\* C13: whenever no counter write is in progress, every play count of the
\* record is its value at creation (0) plus the number of
\* increment_segment_play_count calls that persisted for that segment, and
\* total_streams is 0 plus the number of increment_total_streams calls that
\* persisted: no interleaving loses an update.
C13_NoLostUpdate ==
    Persisted.ok =>
        /\ Persisted.total_streams = issued.total
        /\ \A i \in Segments : Persisted.counts[i] = issued.counts[i]

\* two streams that overlapped in time have each counted the stream and the
\* same segment
C13_Witness ==
    /\ Persisted.ok
    /\ issued.total = 2
    /\ \E i \in Segments : issued.counts[i] = 2
    /\ \A p \in Procs : th[p].kind = "stream" /\ ~th[p].alone

\* C14: a stream that is running (its track has a counters record) always
\* holds a complete record as its metadata: neither the load at its start
\* nor a reload that runs while another request increments a counter
\* returns None.
C14_ReadNeverNotFound ==
    \A p \in Procs :
        (th[p].kind = "stream" /\ th[p].pc \notin Terminal /\ metaFile.exists)
        => th[p].md.ok

\* positions of a request before increment_total_streams has returned
BeforeTotal == {"inc_total", "inc_total_w"}

\* C15: a stream has incremented total_streams not at all while it is at
\* the increment, having emitted nothing, and exactly once from then on,
\* whatever the number of segments it goes through (unless the increment
\* raised); a GET /stream request with a Range header never increments it,
\* one without increments it at most once, and a force-degrade never; the
\* record of a request that ran alone shows total_streams raised by one.
C15_TotalStreamsOncePerStream ==
    \A p \in Procs :
        /\ (th[p].kind = "stream" /\ th[p].pc \in BeforeTotal)
              => (th[p].totals = 0 /\ th[p].out = <<>>)
        /\ (/\ th[p].kind = "stream"
            /\ th[p].pc \notin BeforeTotal \cup {"failed"}
            /\ ~FailedAt(p, "total", 0))
              => /\ th[p].totals = 1
                 /\ (th[p].alone /\ th[p].base.ok) =>
                        metaFile.total_streams = th[p].base.total_streams + 1
        /\ (th[p].kind = "route" /\ th[p].range) => th[p].totals = 0
        /\ (/\ th[p].kind = "route" /\ ~th[p].range /\ th[p].pc \in {"r_send", "done"}
            /\ th[p].alone /\ th[p].base.ok /\ th[p].failed = {})
              => /\ th[p].totals = 1
                 /\ metaFile.total_streams = th[p].base.total_streams + 1
        /\ th[p].kind = "degrade" => th[p].totals = 0
        /\ th[p].totals <= 1

\* a stream of every segment has ended, having counted once, beside a
\* request with a Range header that was answered without counting
C15_Witness ==
    \E p \in Procs :
        \E q \in Procs \ {p} :
            /\ th[p].kind = "stream" /\ th[p].pc = "done"
            /\ Len(th[p].out) = 1 + TotalSegments
            /\ th[p].totals = 1
            /\ th[q].kind = "route" /\ th[q].range /\ th[q].result = "206"
            /\ metaFile.total_streams = 1

\* C16: a stream whose consumer keeps pulling reaches its end, whatever the
\* other requests and their consumers do: waiting for a segment lock ends
\* in Acquired or TimedOut, also when the holder is a stream suspended on a
\* consumer that never pulls again.
C16_PulledStreamEnds ==
    \A p \in Procs :
        WF_vars(Pull(p)) =>
            ((th[p].kind = "stream" /\ th[p].pc \notin Terminal)
                ~> (th[p].pc \in Terminal))

\* a stream has reached its end past a segment whose lock another stream,
\* suspended at that segment's chunk, still holds
C16_Witness ==
    \E p \in Procs :
        \E q \in Procs \ {p} :
            \E i \in Segments :
                /\ th[p].kind = "stream" /\ th[p].pc = "done"
                /\ th[p].failed = {}
                /\ i >= th[p].startIdx
                /\ Occurrences(th[p].out, i) = 1
                /\ th[q].pc = "y_locked" /\ th[q].seg = i /\ segLock[i] = q
                /\ metaFile.counts[i] = 1

\* the step is p's lock acquisition on segment i ending in a timeout
TimesOutOn(p, i) ==
    /\ th[p].seg = i
    /\ \/ th[p].pc = "s_iter" /\ th'[p].pc = "s_ro"
       \/ th[p].pc = "d_lock" /\ th'[p].pc = "failed"

\* C17: the registry holds one lock per key: a key that has a lock keeps
\* it; a held lock changes only by being released, in a step of its
\* holder; a step changes the lock of one key at most; and a request's
\* acquisition on a key times out only if that very key is held by another
\* request, whatever is held or waited for under the other keys.
C17_LocksArePerKey ==
    [][\A i \in Segments :
         /\ segLock[i] # NoLock => segLock'[i] # NoLock
         /\ (segLock[i] \in Procs /\ segLock'[i] # segLock[i])
               => /\ segLock'[i] = NoProc
                  /\ th'[segLock[i]].pc # th[segLock[i]].pc
         /\ segLock'[i] # segLock[i]
               => \A j \in Segments \ {i} : segLock'[j] = segLock[j]
         /\ \A p \in Procs :
               TimesOutOn(p, i) => segLock[i] \in Procs \ {p}]_vars

\* two requests are inside the locked sections of two different segments
\* at once, one of them suspended at its chunk
C17_Witness ==
    \E p \in Procs :
        \E q \in Procs \ {p} :
            \E i \in Segments :
                \E j \in Segments \ {i} :
                    /\ th[p].pc = "y_locked" /\ th[p].seg = i /\ segLock[i] = p
                    /\ th[q].pc = "s_locked" /\ th[q].seg = j /\ segLock[j] = q

\* p waits for the track lock, which another thread holds
WaitsForTrackLock(p) ==
    th[p].pc \in {"inc_total", "inc_seg"} /\ trackLock \in Procs \ {p}

\* C18: the thread that holds the track lock is writing the counters file
\* and nothing else: it is never at a segment-lock acquisition and never
\* waits.  Hence no request is ever stuck: each running request can take a
\* step of its own (or its consumer can), unless it waits for the track
\* lock, whose holder can then take its step.
C18_NoLockCycle ==
    \A p \in Procs :
        /\ trackLock = p => th[p].pc \in {"inc_total_w", "inc_seg_w"}
        /\ th[p].pc \in {"s_iter", "d_lock"} => trackLock # p
        /\ th[p].pc \notin Terminal =>
              \/ ENABLED (Run(p) \/ Pull(p) \/ StreamClose(p))
              \/ /\ WaitsForTrackLock(p)
                 /\ ~WaitsForTrackLock(trackLock)
                 /\ ENABLED Run(trackLock)

\* a request holding a segment lock waits for the track lock, held by a
\* request that holds the lock of another segment
C18_Witness ==
    \E p \in Procs :
        \E q \in Procs \ {p} :
            /\ th[p].pc = "inc_seg" /\ segLock[th[p].seg] = p
            /\ th[q].pc = "inc_seg_w" /\ segLock[th[q].seg] = q
            /\ trackLock = q

\* C19: no request holds a segment lock and the track lock at the same
\* time.
C19_LockDomainsSequential ==
    \A p \in Procs :
        ~(trackLock = p /\ \E i \in Segments : segLock[i] = p)

\* C19 (amended): the two locks are nested in one order.  The track lock is
\* held during increment_total_streams with no segment lock held, and
\* during increment_segment_play_count inside the with block of the segment
\* being counted: it is acquired after and released before that segment's
\* lock, and no segment lock changes hands in a step that takes or
\* releases the track lock.
C19_LockDomainsNested ==
    /\ [](\A p \in Procs :
            trackLock = p =>
               /\ th[p].pc = "inc_total_w" => \A i \in Segments : segLock[i] # p
               /\ th[p].pc = "inc_seg_w" =>
                     \A i \in Segments : (segLock[i] = p) <=> (i = th[p].seg)
               /\ th[p].pc \in {"inc_total_w", "inc_seg_w"})
    /\ [][trackLock' # trackLock => segLock' = segLock]_vars

\* a force-degrade request is writing the counters file, inside the with
\* block of its segment
C19_Witness ==
    \E p \in Procs :
        /\ th[p].kind = "degrade" /\ th[p].pc = "inc_seg_w"
        /\ trackLock = p
        /\ segLock[th[p].seg] = p

\* C20: release_lock by a thread that does not hold the lock changes
\* nothing: a free lock stays free, and a lock that another thread holds
\* stays held by that thread.
C20_ForeignReleaseIgnored ==
    [][\A p \in Procs :
         \A i \in Segments :
            (ReleaseLock(p, i) /\ segLock[i] # p)
            => /\ segLock[i] \in Procs => segLock'[i] = segLock[i]
               /\ segLock[i] \notin Procs => segLock'[i] \notin Procs]_vars

\* ---------------------------------------------------------------- C21
\* C21: when read_segment fails in the locked step of stream_audio, that
\* segment alone is given up: the step puts out no chunk, leaves the
\* counters and the bytes of the container as they were, releases the
\* segment lock, and the stream goes on to the next index (or ends after
\* the last one).
C21_ReadFailureSkipsSegment ==
    [][\A p \in Procs :
         (/\ th[p].pc = "s_locked"
          /\ ~FailedAt(p, "read", th[p].seg)
          /\ <<"read", th[p].seg>> \in th'[p].failed)
         => /\ wav' = wav
            /\ metaFile' = metaFile
            /\ th'[p].out = th[p].out
            /\ segLock[th[p].seg] = p
            /\ segLock'[th[p].seg] = NoProc
            /\ IF th[p].seg + 1 < TotalSegments
               THEN th'[p].pc = "s_iter" /\ th'[p].seg = th[p].seg + 1
               ELSE th'[p].pc = "done"]_vars

\* a stream whose read of segment 0 failed has gone on: it never put out
\* segment 0, whose count is still 0, and it has put out segment 1
C21_Witness ==
    \E p \in Procs :
        /\ th[p].kind = "stream"
        /\ FailedAt(p, "read", 0)
        /\ \A k \in DOMAIN th[p].out : th[p].out[k] # 0
        /\ \E k \in DOMAIN th[p].out : th[p].out[k] = 1
        /\ metaFile.exists
        /\ metaFile.counts[0] = 0
        /\ metaFile.counts[1] = 1

\* ---------------------------------------------------------------- C22
\* C22: a force-degrade that answers "success" answers with the persisted
\* count of its segment as its own increment left it: at the return, still
\* under the segment lock, play_count in the response equals the count in
\* the counters file.
C22_ReplyIsPersistedCount ==
    [][\A p \in Procs :
         (/\ th[p].kind = "degrade"
          /\ th[p].pc = "d_ret"
          /\ th'[p].pc = "done"
          /\ th'[p].result = "success")
         => th'[p].reply = metaFile.counts[th[p].seg]]_vars

\* ---------------------------------------------------------------- C23
\* C23: after any sequence of segment writes the container has the length
\* and the header bytes it had at first, and the track descriptor read from
\* it is the descriptor read before the writes.
C23_HeaderAndLengthKept ==
    /\ Len(store.bytes) = Len(store.original)
    /\ \A k \in 1 .. store.data_offset : store.bytes[k] = store.original[k]
    /\ get_wav_info(store.bytes, store.data_offset, store.frame_bytes)
         = get_wav_info(store.original, store.data_offset, store.frame_bytes)

\* ---------------------------------------------------------------- C24
\* C24: the byte ranges written for two distinct segments of a track have
\* no byte in common, and no segment's range starts before the end of the
\* header region.
C24_SegmentRangesDisjoint ==
    /\ \A i, j \in StoreSegments(store) :
          i # j => WrittenRange(store, i) \cap WrittenRange(store, j) = {}
    /\ \A i \in StoreSegments(store) :
          \A k \in WrittenRange(store, i) : k > store.data_offset

\* ---------------------------------------------------------------- C25
\* C25: write_segment writes exactly the byte range read_segment read for
\* the same index: writing back the buffer just read leaves every byte of
\* the container as it was, and writing a degraded buffer changes no byte
\* outside the range read.
C25_WriteRangeIsReadRange ==
    [][\A segment_index \in 0 .. NumFrames : \A play_count \in 0 .. MaxRequests :
         StoreDegradeSegment(segment_index, play_count)
         => /\ WrittenRange(store, segment_index) = ReadRange(store, segment_index)
            /\ play_count = 0 => store'.bytes = store.bytes
            /\ Len(store'.bytes) = Len(store.bytes)
            /\ \A k \in DOMAIN store.bytes :
                  store'.bytes[k] # store.bytes[k]
                  => k \in ReadRange(store, segment_index)]_vars

\* ---------------------------------------------------------------- C26
\* C26: a counters record is created with a table of
\* ceil(duration / segment duration) entries, all 0, and total_streams 0;
\* from then on the table keeps that length and its entries, and
\* total_streams, are non-negative integers.
C26_CountersTableShape ==
    /\ [](metaFile.exists
            => LET n == Cardinality(DOMAIN metaFile.counts)
               IN  /\ DOMAIN metaFile.counts = 0 .. (n - 1)
                   /\ n * SamplesPerSegment >= NumFrames
                   /\ (n - 1) * SamplesPerSegment < NumFrames
                   /\ \A i \in DOMAIN metaFile.counts : metaFile.counts[i] \in Nat
                   /\ metaFile.total_streams \in Nat)
    /\ [][(~metaFile.exists /\ metaFile'.exists)
            => /\ \A i \in DOMAIN metaFile'.counts : metaFile'.counts[i] = 0
               /\ metaFile'.total_streams = 0]_vars

\* a record that a scan created has been counted on since
C26_Witness ==
    /\ metaFile.exists
    /\ metaFile.created_at = 1
    /\ metaFile.total_streams = 2
    /\ \E i \in DOMAIN metaFile.counts : metaFile.counts[i] = 2

\* ---------------------------------------------------------------- C27
\* C27: increment_segment_play_count with a valid index adds exactly 1 to
\* the count of that segment and changes no other count, not total_streams
\* and no other field; increment_total_streams adds exactly 1 to
\* total_streams and changes no count.
C27_IncrementsTouchOneCounter ==
    [][\A p \in Procs :
         /\ (th[p].pc = "inc_seg" /\ th'[p].pc = "inc_seg_w")
            => /\ th[p].seg \in DOMAIN metaFile.counts
               /\ metaFile'.counts =
                     [metaFile.counts EXCEPT ![th[p].seg] = @ + 1]
               /\ metaFile'.total_streams = metaFile.total_streams
               /\ metaFile'.created_at = metaFile.created_at
               /\ metaFile'.exists
         /\ (th[p].pc = "inc_total" /\ th'[p].pc = "inc_total_w")
            => /\ metaFile'.total_streams = metaFile.total_streams + 1
               /\ metaFile'.counts = metaFile.counts
               /\ metaFile'.created_at = metaFile.created_at
               /\ metaFile'.exists
         /\ (th[p].pc \in {"inc_seg_w", "inc_total_w"} /\ th'[p].pc # th[p].pc)
            => /\ metaFile'.counts = metaFile.counts
               /\ metaFile'.total_streams = metaFile.total_streams
               /\ metaFile'.created_at = metaFile.created_at
               /\ metaFile'.exists /\ ~metaFile'.partial]_vars

\* a stream has counted itself and its segment 1, after another request
\* counted segment 0 twice: only the count of segment 1 went up by its
\* increment
C27_Witness ==
    \E p \in Procs :
        /\ th[p].kind = "stream"
        /\ th[p].pc = "s_write"
        /\ th[p].seg = 1
        /\ ~FailedAt(p, "inc", 1)
        /\ metaFile.counts[0] = 2
        /\ metaFile.counts[1] = 1

\* ---------------------------------------------------------------- C28
\* C28: the overall degradation of a track that has a record is
\* min(rate * mean of the play counts, 100): never more than 100, equal to
\* rate * mean whenever that is at most 100, hence 0 when every count is 0
\* and rate * k when every count is k and rate * k <= 100.
C28_OverallDegradation ==
    (calc.fn = "get_overall_degradation" /\ calc.args[1])
    => LET play_counts == calc.args[2]
           rate == calc.args[3]
           n == Cardinality(DOMAIN play_counts)
           deg == calc.result
       IN  /\ deg.den = n
           /\ deg.num <= 100 * deg.den
           /\ SumCounts(play_counts) * rate <= 100 * n
                => deg.num = SumCounts(play_counts) * rate
           /\ SumCounts(play_counts) * rate > 100 * n => deg.num = 100 * deg.den
           /\ (\A i \in DOMAIN play_counts : play_counts[i] = 0) => deg.num = 0
           /\ \A k \in PlayCounts :
                 ((\A i \in DOMAIN play_counts : play_counts[i] = k)
                     /\ rate * k <= 100)
                 => deg.num = rate * k * deg.den

\* the cap is at work: every segment played 150 times at 1 percent per
\* play gives 100, not 150
C28_Witness ==
    /\ calc.fn = "get_overall_degradation"
    /\ calc.args[1]
    /\ \A i \in DOMAIN calc.args[2] : calc.args[2][i] = 150
    /\ calc.args[3] = 1
    /\ calc.result.num = 100 * calc.result.den

\* ---------------------------------------------------------------- C29
\* C29: apply_dropout with play_count 0 returns, for every buffer and every
\* rate, a buffer of the length of the input with the very samples of the
\* input.
C29_NoPlaysNoDropout ==
    (calc.fn = "apply_dropout" /\ calc.args[2] = 0)
    => /\ Len(calc.result) = Len(calc.args[1])
       /\ \A k \in 1 .. Len(calc.args[1]) : calc.result[k] = calc.args[1][k]

\* at the highest rate a buffer of two non-zero samples came back as it was
C29_Witness ==
    /\ calc.fn = "apply_dropout"
    /\ calc.args[2] = 0
    /\ calc.args[3] = 150
    /\ calc.args[1] = <<7, -5>>
    /\ calc.result = <<7, -5>>

\* ---------------------------------------------------------------- C30
\* C30: whenever play_count * rate is 100 or more (so for every
\* play_count >= 100 with a rate >= 1) apply_dropout returns a buffer of the
\* length of the input in which every sample is 0.
C30_FullDropoutIsSilence ==
    (calc.fn = "apply_dropout" /\ calc.args[2] * calc.args[3] >= 100)
    => /\ Len(calc.result) = Len(calc.args[1])
       /\ \A k \in 1 .. Len(calc.result) : calc.result[k] = 0

\* 100 plays at 1 percent per play: exactly 100, and the two non-zero
\* samples are zeroed
C30_Witness ==
    /\ calc.fn = "apply_dropout"
    /\ calc.args[2] = 100
    /\ calc.args[3] = 1
    /\ calc.args[1] = <<7, -5>>
    /\ calc.result = <<0, 0>>

\* ---------------------------------------------------------------- C31
\* C31: the dropout rate of calculate_dropout_rate lies between 0 and 1
\* (0 and 100 percent), is 0 for play_count 0 at every rate, and for a fixed
\* rate is not less than the rate of any smaller play count.
C31_DropoutRateMonotoneCapped ==
    calc.fn = "calculate_dropout_rate"
    => LET play_count == calc.args[1]
           rate == calc.args[2]
       IN  /\ calc.result >= 0
           /\ calc.result <= 100
           /\ play_count = 0 => calc.result = 0
           /\ \A fewer \in PlayCounts :
                 fewer <= play_count
                 => calculate_dropout_rate(fewer, rate) <= calc.result

\* 150 plays at 1 percent per play: the rate is 100 percent, as it is after
\* 100 plays
C31_Witness ==
    /\ calc.fn = "calculate_dropout_rate"
    /\ calc.args = <<150, 1>>
    /\ calc.result = 100
    /\ calculate_dropout_rate(100, 1) = 100
    /\ calculate_dropout_rate(MaxPlayCount, 1) = MaxPlayCount

\* ---------------------------------------------------------------- C32
\* C32: on a multi-channel buffer apply_dropout zeroes whole frames, for
\* every draw of the random mask: the result has the shape of the input,
\* a frame the mask selects is 0 on every channel, and a frame it does not
\* select has the samples of the input on every channel.
C32_WholeFramesDropped ==
    calc.fn = "apply_dropout_multichannel"
    => LET audio_frames == calc.args[1]
           rate == calculate_dropout_rate(calc.args[2], calc.args[3])
           rnd == calc.args[4]
           Selected(k) == calc.args[2] # 0 /\ (rate >= 100 \/ rnd[k] < rate)
       IN  /\ Len(calc.result) = Len(audio_frames)
           /\ \A k \in 1 .. Len(audio_frames) :
                 /\ DOMAIN calc.result[k] = DOMAIN audio_frames[k]
                 /\ Selected(k) => \A c \in Channels : calc.result[k][c] = 0
                 /\ ~Selected(k)
                      => \A c \in Channels :
                           calc.result[k][c] = audio_frames[k][c]

\* at a rate of 50 percent the first of two stereo frames is dropped on both
\* channels and the second is kept on both
C32_Witness ==
    /\ calc.fn = "apply_dropout_multichannel"
    /\ calc.args[1] = << [c \in Channels |-> 7], [c \in Channels |-> -5] >>
    /\ calculate_dropout_rate(calc.args[2], calc.args[3]) = 50
    /\ calc.result = << [c \in Channels |-> 0], [c \in Channels |-> -5] >>

\* ---------------------------------------------------------------- C33
\* C33: the play count with which stream_audio degrades a segment is read
\* under the lock of that segment: when the samples are read and degraded
\* it is the persisted count of the segment, every increment that another
\* stream completed before the lock was acquired included.
C33_StreamDegradesWithPersistedCount ==
    [][\A p \in Procs :
         (/\ th[p].kind = "stream"
          /\ th[p].pc = "s_locked"
          /\ th'[p].pc = "inc_seg")
         => th[p].play_count = metaFile.counts[th[p].seg]]_vars

\* ---------------------------------------------------------------- C34
\* C34: in the locked step of stream_audio the degraded samples are written
\* to the container before the play count of the segment is incremented:
\* when the increment changes the counters file, the container already
\* holds the degraded samples of the segment.
C34_StreamWritesBeforeCounting ==
    [][\A p \in Procs :
         (/\ th[p].kind = "stream"
          /\ th[p].pc = "inc_seg"
          /\ th'[p].pc = "inc_seg_w")
         => read_segment(wav, th[p].seg) = th[p].degraded]_vars

\* ---------------------------------------------------------------- C35
\* C35: the segment lock is released before the chunk of the segment is
\* handed to the consumer: a stream that is suspended at the yield of a
\* chunk, waiting to be pulled, holds no segment lock.
C35_NoLockWhileSuspended ==
    \A p \in Procs :
        th[p].pc \in {"y_locked", "y_ro"}
        => \A i \in Segments : segLock[i] # p

\* ---------------------------------------------------------------- C36
\* C36: the chunks of one run of stream_audio are in order: the first is
\* the container header, put out once and before any segment is locked or
\* read; the chunks after it belong to strictly increasing segment
\* indices, so that no index has more than one chunk.
C36_ChunksInOrder ==
    \A p \in Procs :
        th[p].kind = "stream"
        => LET out == th[p].out
           IN  /\ \A k \in 1 .. Len(out) : (out[k] = HeaderChunk) <=> (k = 1)
               /\ \A k \in 2 .. Len(out) : out[k] \in Segments
               /\ \A k \in 2 .. (Len(out) - 1) : out[k] < out[k + 1]
               /\ (th[p].pc \in {"s_iter", "s_locked", "s_ro", "inc_seg",
                                  "inc_seg_w", "s_write", "y_locked", "y_ro"}
                     \/ \E i \in Segments : segLock[i] = p)
                    => Len(out) >= 1

\* a stream that started at segment 0 has put out the header and then the
\* chunks of segments 0 and 1
C36_Witness ==
    \E p \in Procs :
        /\ th[p].kind = "stream"
        /\ th[p].out = <<HeaderChunk, 0, 1>>

\* ---------------------------------------------------------------- C37
\* C37: for every start offset t, negative ones and ones beyond the end of
\* the track included, and every total_segments >= 1, get_segment_range
\* returns the consecutive indices from
\* clamp(floor(t / segment duration), 0, total_segments - 1) to
\* total_segments - 1: never an empty list, always ending at the last
\* segment.
C37_SegmentRange ==
    calc.fn = "get_segment_range"
    => LET t == calc.args[1]
           total_segments == calc.args[2]
           floor == IF t >= 0 THEN t \div SamplesPerSegment
                    ELSE -(((-t) + SamplesPerSegment - 1) \div SamplesPerSegment)
           startIndex == IF floor < 0 THEN 0
                         ELSE IF floor > total_segments - 1 THEN total_segments - 1
                         ELSE floor
           indices == calc.result
       IN  /\ Len(indices) >= 1
           /\ indices[1] = startIndex
           /\ indices[Len(indices)] = total_segments - 1
           /\ \A k \in 1 .. (Len(indices) - 1) : indices[k + 1] = indices[k] + 1

\* a start offset of a segment and a half before the track, where floor
\* and truncation differ: the whole track is streamed
C37_Witness ==
    /\ calc.fn = "get_segment_range"
    /\ calc.args[1] < -SamplesPerSegment
    /\ calc.args[1] > -(2 * SamplesPerSegment)
    /\ calc.args[2] = 2
    /\ calc.result = <<0, 1>>

\* ---------------------------------------------------------------- C38
\* C38: the segments cover the whole recording: with
\* samples_per_segment = int(sample_rate * segment_duration) and
\* total_segments = ceil(duration / segment_duration), every frame of the
\* container lies in the segment of exactly one index below
\* total_segments, and every index below total_segments has at least one
\* frame, whether or not sample_rate * segment_duration is an integer.
C38_SegmentsCoverRecording ==
    calc.fn = "segment_layout"
    => LET num_frames == calc.args[1]
           per == calc.result.samples_per_segment
           total == calc.result.total_segments
           FramesOf(i) == { f \in 0 .. (num_frames - 1) :
                              i * per <= f /\ f < (i + 1) * per }
       IN  /\ \A f \in 0 .. (num_frames - 1) :
                 Cardinality({ i \in 0 .. (total - 1) : f \in FramesOf(i) }) = 1
           /\ \A i \in 0 .. (total - 1) : FramesOf(i) # {}

\* ---------------------------------------------------------------- C39
\* C39: corruption of the container is monotone: every sample byte of the
\* file is, in every reachable state, the byte it was at first or zero,
\* and a sample byte that has been zeroed stays zero whatever is written
\* afterwards.
C39_CorruptionMonotone ==
    /\ [](\A k \in (store.data_offset + 1) .. Len(store.bytes) :
             store.bytes[k] \in {store.original[k], 0})
    /\ [][\A k \in (store.data_offset + 1) .. Len(store.bytes) :
             store.bytes[k] = 0 => store'.bytes[k] = 0]_vars

=============================================================================
